---- MODULE Spec2Model ----
(***************************************************************************)
(* A model of the schema metadata cache of PX SQL Tools (SchemaCache) and  *)
(* of the part of MssqlApi it calls (getConnectionKey, runQuery,           *)
(* runScalar).                                                             *)
(*                                                                         *)
(* Conventions.                                                            *)
(*  - An optional value (T | undefined) is a sequence of length 0 or 1:    *)
(*    None for undefined, Some(v) for v.                                   *)
(*  - A string on which the code computes (trim, toLowerCase, join) is a   *)
(*    sequence of one-character strings; a string that the code only       *)
(*    stores or compares is a TLA+ string.                                 *)
(*  - A JavaScript Map is a sequence of [key, value] records in insertion  *)
(*    order.                                                               *)
(*  - An async method is a process: one action per continuation, from the  *)
(*    resolution of the awaited loader query up to the next awaited loader *)
(*    query or the return.  The continuation of an await on a promise      *)
(*    that is already resolved runs in the same action.                    *)
(***************************************************************************)
EXTENDS Integers, Sequences, FiniteSets, TLC

None == <<>>

Some(v) == <<v>>

\* ------------------------------------------------------------------ strings

UpperLetters ==
  <<"A","B","C","D","E","F","G","H","I","J","K","L","M",
    "N","O","P","Q","R","S","T","U","V","W","X","Y","Z">>

LowerLetters ==
  <<"a","b","c","d","e","f","g","h","i","j","k","l","m",
    "n","o","p","q","r","s","t","u","v","w","x","y","z">>

LowerChar(ch) ==
  IF \E i \in DOMAIN UpperLetters : UpperLetters[i] = ch
  THEN LowerLetters[CHOOSE i \in DOMAIN UpperLetters : UpperLetters[i] = ch]
  ELSE ch

\* String.prototype.toLowerCase
ToLowerCase(s) == [i \in 1..Len(s) |-> LowerChar(s[i])]

IsSpace(ch) == ch \in {" ", "\t", "\n"}

RECURSIVE TrimStart(_)
TrimStart(s) ==
  IF s # <<>> /\ IsSpace(Head(s)) THEN TrimStart(Tail(s)) ELSE s

RECURSIVE TrimEnd(_)
TrimEnd(s) ==
  IF s # <<>> /\ IsSpace(s[Len(s)]) THEN TrimEnd(SubSeq(s, 1, Len(s) - 1)) ELSE s

\* String.prototype.trim
Trim(s) == TrimEnd(TrimStart(s))

\* Array.prototype.join(sep) on a sequence of strings
RECURSIVE Join(_, _)
Join(parts, sep) ==
  IF parts = <<>> THEN <<>>
  ELSE IF Len(parts) = 1 THEN parts[1]
  ELSE parts[1] \o sep \o Join(Tail(parts), sep)

\* JavaScript truthiness of an optional string
Truthy(opt) == opt # None /\ opt[1] # <<>>

\* ------------------------------------------------------------- connections

\* The strings of the model.
S_c1 == <<"c","1">>
S_c2 == <<"c","2">>
S_srv == <<"s","r","v">>
S_db1 == <<"d","b","1">>
S_DB1 == <<"D","B","1">>
S_db2 == <<"d","b","2">>
S_dbo == <<"d","b","o">>
S_Ord == <<"O","r","d">>
S_Get == <<"G","e","t">>
S_blank == <<" ">>

\* MssqlConnection: four optional strings.
connA == [connectionId |-> Some(S_c1), server |-> Some(S_srv),
          database |-> Some(S_db1), user |-> None]

\* a connection whose own database is not known
connB == [connectionId |-> Some(S_c2), server |-> Some(S_srv),
          database |-> None, user |-> None]

\* a connection object all of whose fields are blank
connBlank == [connectionId |-> Some(<<>>), server |-> Some(S_blank),
              database |-> Some(S_blank), user |-> None]

\* The values of the parameter `connection: MssqlConnection | undefined`.
Connections == {None, Some(connA), Some(connB), Some(connBlank)}

IsNonBlankPart(part) == part # None /\ Len(Trim(part[1])) > 0

PartValue(part) == part[1]

\* MssqlApi.getConnectionKey
getConnectionKey(connection) ==
  IF connection = None THEN None
  ELSE LET c == connection[1]
           parts == SelectSeq(<<c.connectionId, c.server, c.database, c.user>>,
                              IsNonBlankPart)
       IN IF Len(parts) > 0
          THEN Some(Join([i \in 1..Len(parts) |-> PartValue(parts[i])], <<"|">>))
          ELSE None

\* getConnectionKey of each connection that occurs.
ConnectionKeys == [connection \in Connections |-> getConnectionKey(connection)]

\* The connection keys that occur.
Keys == {getConnectionKey(c)[1] : c \in {x \in Connections : getConnectionKey(x) # None}}

\* ------------------------------------------------------------------- maps

MapHas(m, k) == \E i \in 1..Len(m) : m[i].key = k

\* Map.prototype.get
MapGet(m, k) ==
  IF MapHas(m, k) THEN Some(m[CHOOSE i \in 1..Len(m) : m[i].key = k].value) ELSE None

\* Map.prototype.set: an existing key keeps its position
MapSet(m, k, v) ==
  IF MapHas(m, k)
  THEN [i \in 1..Len(m) |-> IF m[i].key = k THEN [key |-> k, value |-> v] ELSE m[i]]
  ELSE Append(m, [key |-> k, value |-> v])

\* [...map.values()]
MapValues(m) == [i \in 1..Len(m) |-> m[i].value]

\* toObjectKey
toObjectKey(schema, name) == ToLowerCase(schema) \o <<".">> \o ToLowerCase(name)

\* --------------------------------------------------------- catalog rows

\* A cell of a QueryRow: a number, a string, null, or undefined when the
\* query has no such column.
NumCell(n) == [t |-> "number", v |-> n]

StrCell(s) == [t |-> "string", v |-> s]

NullCell == [t |-> "null"]

UndefinedCell == [t |-> "undefined"]

\* row[column]
Cell(row, column) == IF column \in DOMAIN row THEN row[column] ELSE UndefinedCell

IsNullish(cell) == cell.t \in {"null", "undefined"}

Digits == <<"0","1","2","3","4","5","6","7","8","9">>

IsDigit(ch) == \E i \in DOMAIN Digits : Digits[i] = ch

DigitValue(ch) == (CHOOSE i \in DOMAIN Digits : Digits[i] = ch) - 1

RECURSIVE DigitsValue(_)
DigitsValue(s) ==
  IF s = <<>> THEN 0 ELSE 10 * DigitsValue(SubSeq(s, 1, Len(s) - 1)) + DigitValue(s[Len(s)])

RECURSIVE NatToStr(_)
NatToStr(n) == IF n < 10 THEN <<Digits[n + 1]>> ELSE NatToStr(n \div 10) \o <<Digits[(n % 10) + 1]>>

\* String(n) of an integer
NumToStr(n) == IF n < 0 THEN <<"-">> \o NatToStr(-n) ELSE NatToStr(n)

\* Number(string) for integer numerals: None stands for NaN
StringToNumber(s) ==
  LET t == Trim(s)
      neg == t # <<>> /\ Head(t) = "-"
      body == IF neg THEN Tail(t) ELSE t
  IN IF t = <<>> THEN Some(0)
     ELSE IF body # <<>> /\ \A i \in 1..Len(body) : IsDigit(body[i])
          THEN Some(IF neg THEN -DigitsValue(body) ELSE DigitsValue(body))
          ELSE None

\* toNumber
toNumber(cell) ==
  IF IsNullish(cell) THEN None
  ELSE IF cell.t = "number" THEN Some(cell.v)
  ELSE IF cell.t = "string" THEN StringToNumber(cell.v)
  ELSE None

S_1 == <<"1">>
S_true == <<"t","r","u","e">>

\* toBoolean
toBoolean(cell) ==
  IF cell.t = "number" THEN cell.v # 0
  ELSE IF cell.t = "string"
       THEN LET normalized == ToLowerCase(Trim(cell.v))
            IN normalized = S_1 \/ normalized = S_true
       ELSE FALSE

\* String(row[column] ?? '')
StringOrEmpty(cell) ==
  IF IsNullish(cell) THEN <<>>
  ELSE IF cell.t = "number" THEN NumToStr(cell.v)
  ELSE cell.v

\* row[column] ? String(row[column]) : undefined
StringIfTruthy(cell) ==
  IF IsNullish(cell) THEN None
  ELSE IF cell.t = "number" THEN (IF cell.v = 0 THEN None ELSE Some(NumToStr(cell.v)))
  ELSE IF cell.v = <<>> THEN None ELSE Some(cell.v)

S_ntext == <<"n","t","e","x","t">>
S_text == <<"t","e","x","t">>
S_image == <<"i","m","a","g","e">>
S_max == <<"m","a","x">>

\* formatDataType
formatDataType(row) ==
  LET baseType == StringOrEmpty(Cell(row, "data_type"))
      precision == toNumber(Cell(row, "precision"))
      scale == toNumber(Cell(row, "scale"))
      maxLength == toNumber(Cell(row, "max_length"))
  IN IF precision # None /\ scale # None /\ precision[1] > 0
     THEN baseType \o <<"(">> \o NumToStr(precision[1]) \o <<",", " ">>
          \o NumToStr(scale[1]) \o <<")">>
     ELSE IF maxLength # None /\ maxLength[1] > 0
             /\ baseType \notin {S_ntext, S_text, S_image}
          THEN IF maxLength[1] = -1
               THEN baseType \o <<"(">> \o S_max \o <<")">>
               ELSE baseType \o <<"(">> \o NumToStr(maxLength[1]) \o <<")">>
          ELSE baseType

\* the row mapping of populateColumns
ToColumnMetadata(row) ==
  [name |-> StringOrEmpty(Cell(row, "column_name")),
   dataType |-> formatDataType(row),
   maxLength |-> toNumber(Cell(row, "max_length")),
   precision |-> toNumber(Cell(row, "precision")),
   scale |-> toNumber(Cell(row, "scale")),
   isNullable |-> toBoolean(Cell(row, "is_nullable")),
   description |-> StringIfTruthy(Cell(row, "description")),
   isIdentity |-> toBoolean(Cell(row, "is_identity")),
   isComputed |-> toBoolean(Cell(row, "is_computed")),
   isRowGuid |-> toBoolean(Cell(row, "is_rowguidcol")),
   defaultExpression |-> StringIfTruthy(Cell(row, "default_definition"))]

\* the row mapping of populateRoutineParameters
ToRoutineParameter(row) ==
  [name |-> StringOrEmpty(Cell(row, "parameter_name")),
   dataType |-> formatDataType(row),
   maxLength |-> toNumber(Cell(row, "max_length")),
   precision |-> toNumber(Cell(row, "precision")),
   scale |-> toNumber(Cell(row, "scale")),
   isOutput |-> toBoolean(Cell(row, "is_output"))]

\* the row mapping of the foreign key loop of ensureCache
ToForeignKey(row) ==
  [constraint |-> StringOrEmpty(Cell(row, "constraint_name")),
   parentSchema |-> StringOrEmpty(Cell(row, "parent_schema")),
   parentTable |-> StringOrEmpty(Cell(row, "parent_table")),
   parentColumn |-> StringOrEmpty(Cell(row, "parent_column")),
   referencedSchema |-> StringOrEmpty(Cell(row, "referenced_schema")),
   referencedTable |-> StringOrEmpty(Cell(row, "referenced_table")),
   referencedColumn |-> StringOrEmpty(Cell(row, "referenced_column"))]

\* TableMetadata and RoutineMetadata as ensureCache creates them: the lazy
\* fields are absent.
NewTable(schema, name, type) ==
  [schema |-> schema, name |-> name, type |-> type,
   description |-> None, columns |-> None]

NewRoutine(schema, name, type) ==
  [schema |-> schema, name |-> name, type |-> type,
   definition |-> None, parameters |-> None]

S_U == <<"U">>
S_V == <<"V">>
S_P == <<"P">>
S_FN == <<"F","N">>
S_IF == <<"I","F">>
S_TF == <<"T","F">>

\* The object-list loop of ensureCache: the tables and routines maps after
\* the first n rows.
RECURSIVE ObjectMaps(_, _)
ObjectMaps(rows, n) ==
  IF n = 0 THEN [tables |-> <<>>, routines |-> <<>>]
  ELSE LET acc == ObjectMaps(rows, n - 1)
           row == rows[n]
           objectSchema == Trim(StringOrEmpty(Cell(row, "schema_name")))
           objectName == Trim(StringOrEmpty(Cell(row, "object_name")))
           type == Trim(StringOrEmpty(Cell(row, "object_type")))
       IN IF objectSchema = <<>> \/ objectName = <<>> THEN acc
          ELSE IF type = S_U \/ type = S_V
               THEN [acc EXCEPT !.tables =
                       MapSet(@, toObjectKey(objectSchema, objectName),
                              NewTable(objectSchema, objectName,
                                       IF type = S_U THEN "TABLE" ELSE "VIEW"))]
          ELSE IF type \in {S_P, S_FN, S_IF, S_TF}
               THEN [acc EXCEPT !.routines =
                       MapSet(@, toObjectKey(objectSchema, objectName),
                              NewRoutine(objectSchema, objectName,
                                         IF type = S_P THEN "PROCEDURE" ELSE "FUNCTION"))]
          ELSE acc

\* CacheEntry (its timestamp, which nothing reads, is left out)
NewEntry(tables, routines, foreignKeys) ==
  [tables |-> tables, routines |-> routines, foreignKeys |-> foreignKeys]

\* the filter of getTables
IsTableOrView(t) == t.type = "TABLE" \/ t.type = "VIEW"

TablesOf(entry) == SelectSeq(MapValues(entry.tables), IsTableOrView)

\* ---------------------------------------------------------------- loader

\* What the collaborators of one runQueryViaSharing attempt do.
AcquisitionStatuses == {"ok", "permission-required", "no-active-connection", "error"}

ExecOutcomes ==
  {"rows", "nothing", "NO_ACTIVE_CONNECTION", "INVALID_CONNECTION_URI",
   "CONNECTION_FAILED", "PERMISSION_REQUIRED", "PERMISSION_DENIED", "OTHER"}

\* shouldPrompt: shouldPromptForPermission(); choice: the button chosen in
\* the warning message; commandThrows: the editConnectionSharingPermissions
\* command rejects; retry: the status of the second acquisition.
PromptEnvs ==
  [shouldPrompt : BOOLEAN, choice : {"Manage Permissions", "Cancel"},
   commandThrows : BOOLEAN, retry : {"ok", "error"}]

\* MssqlApi.promptForConnectionSharingPermission
promptForConnectionSharingPermission(e) ==
  IF ~e.shouldPrompt THEN "undefined"
  ELSE IF e.choice # "Manage Permissions" THEN "undefined"
  ELSE IF e.commandThrows THEN "throws"
  ELSE IF e.retry = "ok" THEN "connection"
  ELSE "undefined"

\* MssqlApi.ensureConnectionViaSharing
ensureConnectionViaSharing(status, e) ==
  IF status = "ok" THEN "connection"
  ELSE IF status = "permission-required" THEN promptForConnectionSharingPermission(e)
  ELSE "undefined"

\* tk471, tk482: token.isCancellationRequested at the checks before and
\* after executeSimpleQuery.
AttemptEnvs ==
  [status : AcquisitionStatuses, prompt : PromptEnvs, hasUri : BOOLEAN,
   exec : ExecOutcomes, execPrompt : PromptEnvs, tk471 : BOOLEAN, tk482 : BOOLEAN]

\* One iteration of the loop of runQueryViaSharing.
RunQueryAttempt(e, attempt) ==
  LET connection == ensureConnectionViaSharing(e.status, e.prompt)
  IN IF connection = "throws" THEN "throws"
     ELSE IF connection = "undefined" THEN "undefined"
     ELSE IF e.tk471 THEN "undefined"
     ELSE IF ~e.hasUri THEN "undefined"
     ELSE IF e.exec = "rows" THEN (IF e.tk482 THEN "undefined" ELSE "result")
     ELSE IF e.exec = "nothing" THEN "undefined"
     ELSE IF e.exec \in {"NO_ACTIVE_CONNECTION", "INVALID_CONNECTION_URI", "CONNECTION_FAILED"}
             /\ attempt = 0
          THEN "continue"
     ELSE IF e.exec \in {"PERMISSION_REQUIRED", "PERMISSION_DENIED"}
          THEN (IF promptForConnectionSharingPermission(e.execPrompt) = "throws"
                THEN "throws" ELSE "undefined")
     ELSE "undefined"

\* MssqlApi.runQueryViaSharing: the ways one call can end, given whether the
\* token is cancelled while the call is outstanding.
runQueryViaSharing(cancelled) ==
  LET envs == {e \in AttemptEnvs : e.tk482 = cancelled /\ (e.tk471 => cancelled)}
      first == {RunQueryAttempt(e, 0) : e \in envs}
      second == {RunQueryAttempt(e, 1) : e \in envs}
  IN (first \ {"continue"}) \cup (IF "continue" \in first THEN second ELSE {})

\* MssqlApi.runQuery with useLegacyFallback: false, as SchemaCache calls it:
\* with no sharing service, or no shared result, the result is undefined.
runQuery(cancelled) ==
  {"undefined"} \cup runQueryViaSharing(cancelled)

RunQueryLive == runQuery(FALSE)

RunQueryCancelled == runQuery(TRUE)

RunQueryKinds(cancelled) == IF cancelled THEN RunQueryCancelled ELSE RunQueryLive

\* MssqlApi.runScalar on the QueryResult of its runQuery
runScalar(result) ==
  IF result = None \/ Len(result[1].rows) = 0 \/ Len(result[1].columns) = 0
  THEN UndefinedCell
  ELSE Cell(result[1].rows[1], result[1].columns[1])

\* JavaScript truthiness of a cell
CellTruthy(cell) ==
  IF IsNullish(cell) THEN FALSE
  ELSE IF cell.t = "number" THEN cell.v # 0
  ELSE cell.v # <<>>

\* ---- the results the catalog may deliver

S_id == <<"i","d">>
S_int == <<"i","n","t">>
S_note == <<"n","o","t","e">>
S_body == <<"b","o","d","y">>
S_fk == <<"f","k">>

ObjectListResults ==
  { [columns |-> <<"schema_name", "object_name", "object_type">>,
     rows |-> << [schema_name |-> StrCell(S_blank), object_name |-> StrCell(S_Ord),
                  object_type |-> StrCell(<<"U", " ">>)] >>],
    [columns |-> <<"schema_name", "object_name", "object_type">>,
     rows |-> << [schema_name |-> StrCell(S_dbo), object_name |-> StrCell(S_Ord),
                  object_type |-> StrCell(<<"U", " ">>)],
                 [schema_name |-> StrCell(S_dbo), object_name |-> StrCell(S_Get),
                  object_type |-> StrCell(<<"P", " ">>)] >>] }

ForeignKeyResults ==
  { [columns |-> <<"constraint_name">>,
     rows |-> << [constraint_name |-> StrCell(S_fk), parent_schema |-> StrCell(S_dbo),
                  parent_table |-> StrCell(S_Ord), parent_column |-> StrCell(S_id),
                  referenced_schema |-> StrCell(S_dbo),
                  referenced_table |-> StrCell(S_Ord),
                  referenced_column |-> StrCell(S_id)] >>] }

ColumnResults ==
  { [columns |-> <<"column_name">>, rows |-> <<>>],
    [columns |-> <<"column_name">>,
     rows |-> << [column_name |-> StrCell(S_id), data_type |-> StrCell(S_int),
                  max_length |-> NumCell(4), precision |-> NumCell(10),
                  scale |-> NumCell(0), is_nullable |-> NumCell(0),
                  description |-> NullCell] >>] }

DescriptionResults ==
  { [columns |-> <<"description">>, rows |-> <<>>],
    [columns |-> <<"description">>, rows |-> << [description |-> StrCell(S_note)] >>] }

DefinitionResults ==
  { [columns |-> <<"definition">>, rows |-> << [definition |-> NullCell] >>],
    [columns |-> <<"definition">>, rows |-> << [definition |-> StrCell(S_body)] >>] }

ParameterResults ==
  { [columns |-> <<"parameter_id">>,
     rows |-> << [parameter_id |-> NumCell(1), parameter_name |-> StrCell(S_id),
                  data_type |-> StrCell(S_int), max_length |-> NumCell(4),
                  precision |-> NumCell(10), scale |-> NumCell(0),
                  is_output |-> NumCell(0)] >>] }

\* The QueryResult | undefined values a runQuery of outcome `kind` returns.
QueryResults(kind, results) ==
  IF kind = "result" THEN {Some(r) : r \in results} ELSE {None}

\* ------------------------------------------------------------ SchemaCache

\* The number of store calls that may be outstanding at once.
MaxCalls == 2

Slots == 1..MaxCalls

Operations == {"getTables", "getTable", "getRoutines", "getRoutine", "getForeignKeys"}

\* The values of options.database of getTable.
TargetDatabases == {None, Some(S_db2), Some(S_DB1)}

VARIABLES
  cache,           \* SchemaCache.cache: connection key -> CacheEntry | undefined
  calls,           \* the outstanding store calls: parameters, locals, position
  lastCall,        \* the invalidate or dispose call that the last step was, if it was one
  installEvent,    \* the call that has just executed this.cache.set, if the last step did
  returned,        \* the call that has just returned or rejected, if the last step ended one
  queried,         \* per key: an object-list query was issued since the key's last invalidation
  afterInvalidate, \* per key: invalidate(key) has dropped an entry while no call was outstanding, and no call on the key has started since
  lastGetTable,    \* per key: what the last getTable of the key returned, if it ran alone on the key
  probe,           \* a caller's own value: the application of a function, or a list it holds
  fetchedOk        \* per key: the lazy fields of the table that calls fetched into the entry the cache holds

vars == <<cache, calls, returned, installEvent, lastCall, queried, afterInvalidate,
          lastGetTable, fetchedOk, probe>>

\* the caller holds nothing
NoProbe == [fn |-> "none"]

NoCall == [op |-> "none", key |-> None]

\* A call.  pc is the query the call awaits ("bulk", "fk", "cols", "desc",
\* "odCols", "odDesc", "def", "params"), or "idle", or "done".  key is the
\* connection key under which the call uses the cache, live says that its
\* `entry` is the object now in the cache, table is its local `table` or
\* `routine`, maps holds the `tables` and `routines` of its ensureCache.
\* cancelled is the state of its token.  The other fields record what the
\* call did.  During ensureCache: how the object-list query ended (bulk),
\* whether the object-list query was a second one since the key's last
\* invalidation (requeried), whether cache.set found an entry already there
\* (replaced).
\* After it: the on-demand and lazy-field queries issued (issued).
\* stale: the call is a getTables and the first call on its key since an
\* invalidate dropped the key's entry.  solo: no other call on the key, no
\* invalidate of the key and no dispose has happened during the call.  prev:
\* what the getTable before it on the key returned, both being solo.
IdleCall ==
  [pc |-> "idle", op |-> "none", conn |-> None, schema |-> <<>>, name |-> <<>>,
   optDb |-> None, key |-> None, live |-> FALSE, mode |-> "none", table |-> None,
   maps |-> [tables |-> <<>>, routines |-> <<>>], result |-> <<>>, threw |-> FALSE,
   cancelled |-> FALSE,
   issued |-> {}, replaced |-> FALSE, requeried |-> FALSE,
   bulk |-> "none", stale |-> FALSE, solo |-> FALSE, prev |-> None]

InFlight(r) == r.pc \notin {"idle", "done"}

\* the call returns value
Finish(r, value) == [r EXCEPT !.pc = "done", !.result = value]

\* the call's promise rejects
Reject(r) == [r EXCEPT !.pc = "done", !.threw = TRUE]

\* the call issues the on-demand or lazy-field query q and awaits it
Await(r, q) == [r EXCEPT !.pc = q, !.issued = @ \cup {q}]

\* ensureCache issues its query q and awaits it
AwaitSnapshot(r, q) == [r EXCEPT !.pc = q]

\* the call when its ensureCache has returned
LeaveEnsure(r) ==
  [r EXCEPT !.maps = [tables |-> <<>>, routines |-> <<>>], !.bulk = "none",
            !.requeried = FALSE, !.replaced = FALSE]

\* an invalidate that removes nothing
invalidateNothing(ch, connection) == ch

\* an invalidate that removes every entry
invalidateEvery(ch, connection) == [k \in DOMAIN ch |-> None]

\* SchemaCache.invalidate
invalidate(ch, connection) ==
  LET key == ConnectionKeys[connection]
  IN IF key # None THEN [ch EXCEPT ![key[1]] = None] ELSE ch

\* SchemaCache.dispose
dispose(ch) == [k \in DOMAIN ch |-> None]

\* the condition of getTable under which it takes the cross-database path
IsCrossDatabase(connection, optDb) ==
  /\ Truthy(optDb)
  /\ connection # None
  /\ Truthy(connection[1].database)
  /\ ToLowerCase(optDb[1]) # ToLowerCase(connection[1].database[1])

\* SchemaCache.populateColumns, on the result of its query
populateColumns(table, result) ==
  IF result = None THEN table
  ELSE [table EXCEPT !.columns = Some([i \in 1..Len(result[1].rows) |->
                                     ToColumnMetadata(result[1].rows[i])])]

\* SchemaCache.populateDescription, on the result of its query
populateDescription(table, result) ==
  LET description == runScalar(result)
  IN IF CellTruthy(description) THEN [table EXCEPT !.description = Some(description.v)]
     ELSE table

\* SchemaCache.populateRoutineDefinition, on the result of its query
populateRoutineDefinition(routine, result) ==
  LET definition == runScalar(result)
  IN IF CellTruthy(definition) THEN [routine EXCEPT !.definition = Some(definition.v)]
     ELSE routine

\* SchemaCache.populateRoutineParameters, on the result of its query
populateRoutineParameters(routine, result) ==
  IF result = None THEN routine
  ELSE [routine EXCEPT !.parameters = Some([i \in 1..Len(result[1].rows) |->
                                          ToRoutineParameter(result[1].rows[i])])]

\* entry.tables.set(key, table) by call r: it reaches the cache only while
\* r's entry is the object the cache holds
EntrySetTable(ch, r, table) ==
  IF r.live
  THEN [ch EXCEPT ![r.key[1]] =
          Some([@[1] EXCEPT !.tables = MapSet(@, toObjectKey(r.schema, r.name), table)])]
  ELSE ch

\* entry.routines.set(key, routine) by call r
EntrySetRoutine(ch, r, routine) ==
  IF r.live
  THEN [ch EXCEPT ![r.key[1]] =
          Some([@[1] EXCEPT !.routines = MapSet(@, toObjectKey(r.schema, r.name), routine)])]
  ELSE ch

\* a getTable that loads the columns whether or not the table has them
FillColumnsAgain(r, table) == Await([r EXCEPT !.table = Some(table)], "cols")

\* getTable that asks for the description before the columns are there
FillDescriptionFirst(r, table) ==
  IF ~Truthy(table.description) THEN Await([r EXCEPT !.table = Some(table)], "desc")
  ELSE IF table.columns = None THEN Await([r EXCEPT !.table = Some(table)], "cols")
  ELSE Finish(r, Some(table))

\* getTable from `if (!table.columns)` on, with the table resolved
FillColumns(r, table) ==
  IF table.columns = None THEN Await([r EXCEPT !.table = Some(table)], "cols")
  ELSE IF ~Truthy(table.description) THEN Await([r EXCEPT !.table = Some(table)], "desc")
  ELSE Finish(r, Some(table))

\* getTable from `if (!table.description)` on
FillDescription(r, table) ==
  IF ~Truthy(table.description) THEN Await([r EXCEPT !.table = Some(table)], "desc")
  ELSE Finish(r, Some(table))

\* getRoutine from `if (!routine.definition)` on
FillDefinition(r, routine) ==
  IF ~Truthy(routine.definition) THEN Await([r EXCEPT !.table = Some(routine)], "def")
  ELSE IF routine.parameters = None THEN Await([r EXCEPT !.table = Some(routine)], "params")
  ELSE Finish(r, Some(routine))

\* getRoutine from `if (!routine.parameters)` on
FillParameters(r, routine) ==
  IF routine.parameters = None THEN Await([r EXCEPT !.table = Some(routine)], "params")
  ELSE Finish(r, Some(routine))

\* loadTableOnDemand up to its column query
loadTableOnDemand(r, connection, mode) ==
  IF connection = None THEN Finish(r, None)
  ELSE Await([r EXCEPT !.mode = mode, !.table = Some(NewTable(r.schema, r.name, "TABLE"))],
             "odCols")

\* AfterEnsure with a getRoutine that looks a missing routine up on demand
AfterEnsureRoutineOnDemand(r, entry) ==
  IF r.op = "getTables" THEN Finish(r, TablesOf(entry))
  ELSE IF r.op = "getRoutines" THEN Finish(r, MapValues(entry.routines))
  ELSE IF r.op = "getForeignKeys" THEN Finish(r, entry.foreignKeys)
  ELSE IF r.op = "getRoutine"
       THEN LET routine == MapGet(entry.routines, toObjectKey(r.schema, r.name))
            IN FillDefinition(r, IF routine = None
                                 THEN NewRoutine(r.schema, r.name, "PROCEDURE")
                                 ELSE routine[1])
  ELSE LET table == MapGet(entry.tables, toObjectKey(r.schema, r.name))
       IN IF table = None THEN loadTableOnDemand(r, r.conn, "miss")
          ELSE FillColumns(r, table[1])

\* Each public method from the point where its ensureCache has resolved to
\* `entry`.
AfterEnsure(r, entry) ==
  IF r.op = "getTables" THEN Finish(r, TablesOf(entry))
  ELSE IF r.op = "getRoutines" THEN Finish(r, MapValues(entry.routines))
  ELSE IF r.op = "getForeignKeys" THEN Finish(r, entry.foreignKeys)
  ELSE IF r.op = "getRoutine"
       THEN LET routine == MapGet(entry.routines, toObjectKey(r.schema, r.name))
            IN IF routine = None THEN Finish(r, None) ELSE FillDefinition(r, routine[1])
  ELSE LET table == MapGet(entry.tables, toObjectKey(r.schema, r.name))
       IN IF table = None THEN loadTableOnDemand(r, r.conn, "miss")
          ELSE FillColumns(r, table[1])

\* Each public method where ensureCache has resolved to undefined (no key).
AfterNoEntry(r) ==
  IF r.op \in {"getTables", "getRoutines", "getForeignKeys"} THEN Finish(r, <<>>)
  ELSE IF r.op = "getRoutine" THEN Finish(r, None)
  ELSE loadTableOnDemand(r, r.conn, "noentry")

\* what a finished getTable leaves for the next one of its key
Remember(last, r) ==
  IF r.pc = "done" /\ r.op = "getTable" /\ r.key # None
  THEN [last EXCEPT ![r.key[1]] = IF r.solo /\ ~r.threw THEN Some(r.result) ELSE None]
  ELSE last

\* the record of a call that ends: with what the getTable before it returned
Returned(last, r) ==
  IF r.pc = "done"
  THEN [r EXCEPT !.prev = IF r.op = "getTable" /\ r.key # None /\ r.solo
                          THEN last[r.key[1]] ELSE None]
  ELSE IdleCall

\* Slot c continues to newR with the cache becoming newCache; install says
\* that it executed this.cache.set(key, entry), event is then the call as it
\* did so; fetched names the lazy fields it has fetched into its entry.
Step(c, newR, newCache, install, fetched, event) ==
  /\ calls' = [d \in Slots |->
                 IF d = c THEN (IF newR.pc = "done" THEN IdleCall ELSE newR)
                 ELSE IF install /\ calls[d].key = newR.key
                      THEN [calls[d] EXCEPT !.live = FALSE]
                      ELSE calls[d]]
  /\ returned' = Returned(lastGetTable, newR)
  /\ installEvent' = event
  /\ lastCall' = NoCall
  /\ cache' = newCache
  /\ lastGetTable' = Remember(lastGetTable, newR)
  /\ fetchedOk' = IF install THEN [fetchedOk EXCEPT ![newR.key[1]] = {}]
                  ELSE IF newR.live THEN [fetchedOk EXCEPT ![newR.key[1]] = @ \cup fetched]
                  ELSE fetchedOk
  /\ UNCHANGED <<queried, afterInvalidate, probe>>

\* the end of ensureCache: this.cache.set(key, entry); return entry
Install(c, r, tables, routines, foreignKeys) ==
  LET entry == NewEntry(tables, routines, foreignKeys)
      r1 == [r EXCEPT !.live = TRUE, !.replaced = cache[r.key[1]] # None]
  IN Step(c, AfterEnsure(LeaveEnsure(r1), entry),
          [cache EXCEPT ![r.key[1]] = Some(entry)], TRUE, {}, r1)

IdleStore ==
  /\ cache = [k \in Keys |-> None]
  /\ calls = [c \in Slots |-> IdleCall]
  /\ returned = IdleCall
  /\ installEvent = IdleCall
  /\ queried = [k \in Keys |-> FALSE]
  /\ afterInvalidate = [k \in Keys |-> FALSE]
  /\ lastCall = NoCall
  /\ lastGetTable = [k \in Keys |-> None]
  /\ fetchedOk = [k \in Keys |-> {}]

Init ==
  /\ IdleStore
  /\ probe = NoProbe

\* A public method is called: it runs up to its first awaited query.  (Idle
\* slots are alike: the call takes the first one.)
Start(c, op, connection, optDb) ==
  /\ ~InFlight(calls[c])
  /\ \A d \in Slots : d < c => InFlight(calls[d])
  /\ optDb # None => op = "getTable"
  /\ LET cross == op = "getTable" /\ IsCrossDatabase(connection, optDb)
         key == IF cross THEN None ELSE ConnectionKeys[connection]
         others == {d \in Slots \ {c} : InFlight(calls[d]) /\ key # None /\ calls[d].key = key}
         r0 == [IdleCall EXCEPT
                  !.op = op, !.conn = connection, !.optDb = optDb, !.key = key,
                  !.schema = IF op \in {"getTable", "getRoutine"} THEN S_dbo ELSE <<>>,
                  !.name = IF op = "getTable" THEN S_Ord
                           ELSE IF op = "getRoutine" THEN S_Get ELSE <<>>,
                  !.solo = key # None /\ others = {},
                  !.stale = key # None /\ op = "getTables" /\ afterInvalidate[key[1]]]
         newR == IF cross
                 THEN loadTableOnDemand(r0, Some([connection[1] EXCEPT !.database = optDb]),
                                        "cross")
                 ELSE IF key = None THEN AfterNoEntry(r0)
                 ELSE IF cache[key[1]] # None
                      THEN AfterEnsure([r0 EXCEPT !.live = TRUE], cache[key[1]][1])
                      ELSE AwaitSnapshot([r0 EXCEPT !.requeried = queried[key[1]]], "bulk")
     IN /\ calls' = [d \in Slots |->
                       IF d = c THEN (IF newR.pc = "done" THEN IdleCall ELSE newR)
                       ELSE IF d \in others THEN [calls[d] EXCEPT !.solo = FALSE]
                       ELSE calls[d]]
        /\ returned' = Returned(lastGetTable, newR)
        /\ installEvent' = IdleCall
        /\ lastCall' = NoCall
        /\ queried' = IF newR.pc = "bulk" THEN [queried EXCEPT ![key[1]] = TRUE] ELSE queried
        /\ afterInvalidate' = IF key # None THEN [afterInvalidate EXCEPT ![key[1]] = FALSE]
                              ELSE afterInvalidate
        /\ lastGetTable' = Remember(lastGetTable, newR)
        /\ UNCHANGED <<cache, fetchedOk, probe>>

\* The caller's cancellation token fires while ensureCache awaits a query
\* (only getTables and getTable pass a token on).
Cancel(c) ==
  /\ calls[c].pc \in {"bulk", "fk"}
  /\ calls[c].op \in {"getTables", "getTable"}
  /\ ~calls[c].cancelled
  /\ calls' = [calls EXCEPT ![c].cancelled = TRUE]
  /\ returned' = IdleCall
  /\ installEvent' = IdleCall
  /\ lastCall' = NoCall
  /\ UNCHANGED <<cache, queried, afterInvalidate, lastGetTable, fetchedOk, probe>>

\* ensureCache: the object-list query resolves
BulkDone(c) ==
  /\ calls[c].pc = "bulk"
  /\ \E kind \in RunQueryKinds(calls[c].cancelled) :
       \E result \in QueryResults(kind, ObjectListResults) :
         LET r == calls[c]
         IN IF kind = "throws" THEN Step(c, Reject(r), cache, FALSE, {}, IdleCall)
            ELSE IF result = None
                 THEN Install(c, [r EXCEPT !.bulk = "failed"], <<>>, <<>>, <<>>)
                 ELSE Step(c, AwaitSnapshot([r EXCEPT !.bulk = "ok",
                                                      !.maps = ObjectMaps(result[1].rows,
                                                                          Len(result[1].rows))],
                                            "fk"),
                           cache, FALSE, {}, IdleCall)

\* ensureCache: the foreign key query resolves
FkDone(c) ==
  /\ calls[c].pc = "fk"
  /\ \E kind \in RunQueryKinds(calls[c].cancelled) :
       \E result \in QueryResults(kind, ForeignKeyResults) :
         LET r == calls[c]
         IN IF kind = "throws" THEN Step(c, Reject(r), cache, FALSE, {}, IdleCall)
            ELSE Install(c, r, r.maps.tables, r.maps.routines,
                         IF result = None THEN <<>>
                         ELSE [i \in 1..Len(result[1].rows) |->
                                 ToForeignKey(result[1].rows[i])])

\* getTable: the query of populateColumns resolves
ColsDone(c) ==
  /\ calls[c].pc = "cols"
  /\ \E kind \in RunQueryKinds(FALSE) :
       \E result \in QueryResults(kind, ColumnResults) :
         LET r == calls[c]
             table == populateColumns(r.table[1], result)
         IN IF kind = "throws" THEN Step(c, Reject(r), cache, FALSE, {}, IdleCall)
            ELSE Step(c, FillDescription(r, table), EntrySetTable(cache, r, table), FALSE,
                      (IF result # None THEN {"columns"} ELSE {}), IdleCall)

\* getTable: the query of populateDescription resolves
DescDone(c) ==
  /\ calls[c].pc = "desc"
  /\ \E kind \in RunQueryKinds(FALSE) :
       \E result \in QueryResults(kind, DescriptionResults) :
         LET r == calls[c]
             table == populateDescription(r.table[1], result)
         IN IF kind = "throws" THEN Step(c, Reject(r), cache, FALSE, {}, IdleCall)
            ELSE Step(c, Finish(r, Some(table)), EntrySetTable(cache, r, table), FALSE,
                      (IF CellTruthy(runScalar(result)) THEN {"description"} ELSE {}),
                      IdleCall)

\* loadTableOnDemand: its column query resolves
OdColsDone(c) ==
  /\ calls[c].pc = "odCols"
  /\ \E kind \in RunQueryKinds(FALSE) :
       \E result \in QueryResults(kind, ColumnResults) :
         LET r == calls[c]
             table == populateColumns(r.table[1], result)
         IN IF kind = "throws" THEN Step(c, Reject(r), cache, FALSE, {}, IdleCall)
            ELSE IF table.columns = None \/ Len(table.columns[1]) = 0
                 THEN Step(c, Finish(r, None), cache, FALSE, {}, IdleCall)
                 ELSE Step(c, Await([r EXCEPT !.table = Some(table)], "odDesc"),
                           cache, FALSE, {}, IdleCall)

\* loadTableOnDemand: its description query resolves; getTable goes on
OdDescDone(c) ==
  /\ calls[c].pc = "odDesc"
  /\ \E kind \in RunQueryKinds(FALSE) :
       \E result \in QueryResults(kind, DescriptionResults) :
         LET r == calls[c]
             table == populateDescription(r.table[1], result)
         IN IF kind = "throws" THEN Step(c, Reject(r), cache, FALSE, {}, IdleCall)
            ELSE IF r.mode = "miss"
                 THEN Step(c, FillColumns(r, table), EntrySetTable(cache, r, table), FALSE,
                           {"columns"} \cup (IF CellTruthy(runScalar(result))
                                             THEN {"description"} ELSE {}),
                           IdleCall)
                 ELSE Step(c, Finish(r, Some(table)), cache, FALSE, {}, IdleCall)

\* getRoutine: the query of populateRoutineDefinition resolves
DefDone(c) ==
  /\ calls[c].pc = "def"
  /\ \E kind \in RunQueryKinds(FALSE) :
       \E result \in QueryResults(kind, DefinitionResults) :
         LET r == calls[c]
             routine == populateRoutineDefinition(r.table[1], result)
         IN IF kind = "throws" THEN Step(c, Reject(r), cache, FALSE, {}, IdleCall)
            ELSE Step(c, FillParameters(r, routine), EntrySetRoutine(cache, r, routine),
                      FALSE, {}, IdleCall)

\* getRoutine: the query of populateRoutineParameters resolves
ParamsDone(c) ==
  /\ calls[c].pc = "params"
  /\ \E kind \in RunQueryKinds(FALSE) :
       \E result \in QueryResults(kind, ParameterResults) :
         LET r == calls[c]
             routine == populateRoutineParameters(r.table[1], result)
         IN IF kind = "throws" THEN Step(c, Reject(r), cache, FALSE, {}, IdleCall)
            ELSE Step(c, Finish(r, Some(routine)), EntrySetRoutine(cache, r, routine),
                      FALSE, {}, IdleCall)

\* SchemaCache.invalidate(connection): its effect on the store
InvalidateStore(connection) ==
  LET key == ConnectionKeys[connection]
      quiet == \A d \in Slots : ~InFlight(calls[d])
  IN /\ cache' = invalidate(cache, connection)
     /\ calls' = [d \in Slots |->
                    IF key # None /\ calls[d].key = key
                    THEN [calls[d] EXCEPT !.live = FALSE, !.solo = FALSE]
                    ELSE calls[d]]
     /\ returned' = IdleCall
     /\ installEvent' = IdleCall
     /\ lastCall' = [op |-> "invalidate", key |-> key]
     /\ queried' = IF key # None THEN [queried EXCEPT ![key[1]] = FALSE] ELSE queried
     /\ afterInvalidate' =
          IF key # None
          THEN [afterInvalidate EXCEPT ![key[1]] = quiet /\ cache[key[1]] # None]
          ELSE afterInvalidate
     /\ lastGetTable' = IF key # None THEN [lastGetTable EXCEPT ![key[1]] = None]
                        ELSE lastGetTable
     /\ fetchedOk' = IF key # None THEN [fetchedOk EXCEPT ![key[1]] = {}] ELSE fetchedOk

\* SchemaCache.invalidate(connection), called by a user of the store
Invalidate(connection) ==
  /\ InvalidateStore(connection)
  /\ UNCHANGED probe

\* SchemaCache.dispose()
Dispose ==
  /\ cache' = dispose(cache)
  /\ calls' = [d \in Slots |-> [calls[d] EXCEPT !.live = FALSE, !.solo = FALSE]]
  /\ returned' = IdleCall
  /\ installEvent' = IdleCall
  /\ queried' = [k \in Keys |-> FALSE]
  /\ afterInvalidate' = [k \in Keys |-> FALSE]
  /\ lastCall' = [op |-> "dispose", key |-> None]
  /\ lastGetTable' = [k \in Keys |-> None]
  /\ fetchedOk' = [k \in Keys |-> {}]
  /\ UNCHANGED probe

\* The store with every operation, connection and target database.
Next ==
  \/ \E c \in Slots, op \in Operations, connection \in Connections, optDb \in TargetDatabases :
       Start(c, op, connection, optDb)
  \/ \E c \in Slots : Cancel(c)
  \/ \E c \in Slots : BulkDone(c)
  \/ \E c \in Slots : FkDone(c)
  \/ \E c \in Slots : ColsDone(c)
  \/ \E c \in Slots : DescDone(c)
  \/ \E c \in Slots : OdColsDone(c)
  \/ \E c \in Slots : OdDescDone(c)
  \/ \E c \in Slots : DefDone(c)
  \/ \E c \in Slots : ParamsDone(c)
  \/ \E connection \in Connections : Invalidate(connection)
  \/ Dispose

Spec == Init /\ [][Next]_vars

\* The specifications below restrict Next to one scenario each: every step
\* of theirs is a step of Next.

\* The table operations on one connection, with concurrent callers.
NextTables ==
  \/ \E c \in Slots, op \in {"getTables", "getTable"} : Start(c, op, Some(connA), None)
  \/ \E c \in Slots : Cancel(c)
  \/ \E c \in Slots : BulkDone(c)
  \/ \E c \in Slots : FkDone(c)
  \/ \E c \in Slots : ColsDone(c)
  \/ \E c \in Slots : DescDone(c)
  \/ \E c \in Slots : OdColsDone(c)
  \/ \E c \in Slots : OdDescDone(c)
  \/ Invalidate(Some(connA))
  \/ Dispose

SpecTables == Init /\ [][NextTables]_vars

\* no call is in flight
Quiet == \A d \in Slots : ~InFlight(calls[d])

\* getTable with a target database, one call at a time: on a connection that
\* names no database, and on one that names another database than the target.
NextDatabases ==
  \/ /\ Quiet
     /\ \E c \in Slots, optDb \in TargetDatabases : Start(c, "getTable", Some(connB), optDb)
  \/ /\ Quiet
     /\ \E c \in Slots : Start(c, "getTable", Some(connA), Some(S_db2))
  \/ \E c \in Slots : BulkDone(c)
  \/ \E c \in Slots : FkDone(c)
  \/ \E c \in Slots : ColsDone(c)
  \/ \E c \in Slots : DescDone(c)
  \/ \E c \in Slots : OdColsDone(c)
  \/ \E c \in Slots : OdDescDone(c)

SpecDatabases == Init /\ [][NextDatabases]_vars

\* Every operation on the connections that resolve to no key.
NextNoKey ==
  \/ \E c \in Slots, op \in Operations, connection \in {None, Some(connBlank)},
         optDb \in TargetDatabases :
       Start(c, op, connection, optDb)
  \/ \E c \in Slots : OdColsDone(c)
  \/ \E c \in Slots : OdDescDone(c)

SpecNoKey == Init /\ [][NextNoKey]_vars

\* Two connections with invalidate and dispose, one call at a time: getTable
\* and getRoutine fill lazy fields under one key, getForeignKeys populates
\* the other.
NextTwoKeys ==
  \/ /\ Quiet
     /\ \E c \in Slots, op \in {"getTable", "getRoutine"} : Start(c, op, Some(connB), None)
  \/ /\ Quiet
     /\ \E c \in Slots : Start(c, "getForeignKeys", Some(connA), None)
  \/ \E c \in Slots : BulkDone(c)
  \/ \E c \in Slots : FkDone(c)
  \/ \E c \in Slots : ColsDone(c)
  \/ \E c \in Slots : DescDone(c)
  \/ \E c \in Slots : OdColsDone(c)
  \/ \E c \in Slots : OdDescDone(c)
  \/ \E c \in Slots : DefDone(c)
  \/ \E c \in Slots : ParamsDone(c)
  \/ \E connection \in {Some(connA), Some(connB)} : Invalidate(connection)
  \/ Dispose

SpecTwoKeys == Init /\ [][NextTwoKeys]_vars

TypeOK ==
  /\ \A k \in Keys : Len(cache[k]) <= 1
  /\ \A c \in Slots : calls[c].live => calls[c].key # None /\ cache[calls[c].key[1]] # None

\* ---------------------------------------------------------- query builders

\* the variables of the store, which the application of a function leaves alone
storeVars == <<cache, calls, returned, installEvent, lastCall, queried, afterInvalidate,
               lastGetTable, fetchedOk>>

\* the strings of at most n characters of the set chars
StringsUpTo(chars, n) == UNION {[1..m -> chars] : m \in 0..n}

Quote == "'"
OpenBracket == "["
CloseBracket == "]"
Dot == "."

\* value.replace(/'/g, "''")
RECURSIVE DoubleQuotes(_)
DoubleQuotes(value) ==
  IF value = <<>> THEN <<>>
  ELSE (IF Head(value) = Quote THEN <<Quote, Quote>> ELSE <<Head(value)>>)
       \o DoubleQuotes(Tail(value))

\* value.replace(/\]/g, ']]')
RECURSIVE escapeSqlIdentifier(_)
escapeSqlIdentifier(value) ==
  IF value = <<>> THEN <<>>
  ELSE (IF Head(value) = CloseBracket THEN <<CloseBracket, CloseBracket>> ELSE <<Head(value)>>)
       \o escapeSqlIdentifier(Tail(value))

escapeSqlLiteral(value) == escapeSqlIdentifier(DoubleQuotes(value))

\* `[${escapeSqlIdentifier(database)}].` for a database that is given and not ''
qualifyCatalogScope(database) ==
  IF Truthy(database)
  THEN <<OpenBracket>> \o escapeSqlIdentifier(database[1]) \o <<CloseBracket, Dot>>
  ELSE <<>>

qualifyIdentifier(schema, object, database) ==
  LET databasePart == IF Truthy(database)
                      THEN <<OpenBracket>> \o escapeSqlIdentifier(database[1])
                           \o <<CloseBracket, Dot>>
                      ELSE <<>>
      schemaPart == <<OpenBracket>> \o escapeSqlIdentifier(schema) \o <<CloseBracket>>
      objectPart == <<OpenBracket>> \o escapeSqlIdentifier(object) \o <<CloseBracket>>
  IN databasePart \o schemaPart \o <<Dot>> \o objectPart

\* The text of a query is its template with the holes filled.  The template
\* is fixed; a query is modelled by what fills its holes: scope is the text
\* put before each catalog view, literals are the texts put between N' and '.
columnsForObjectQuery(schema, object, database) ==
  [scope |-> qualifyCatalogScope(database),
   literals |-> <<qualifyIdentifier(schema, object, database)>>]

extendedPropertyDescriptionQuery(schema, object, database) ==
  [scope |-> qualifyCatalogScope(database),
   literals |-> <<escapeSqlLiteral(schema), escapeSqlLiteral(object)>>]

routineDefinitionQuery(schema, object, database) ==
  [scope |-> qualifyCatalogScope(database),
   literals |-> <<escapeSqlLiteral(schema), escapeSqlLiteral(object)>>]

routineParametersQuery(schema, object, database) ==
  [scope |-> qualifyCatalogScope(database),
   literals |-> <<qualifyIdentifier(schema, object, database)>>]

ObjectQueryBuilders == {"columnsForObjectQuery", "extendedPropertyDescriptionQuery",
                        "routineDefinitionQuery", "routineParametersQuery"}

BuildObjectQuery(fn, schema, object, database) ==
  CASE fn = "columnsForObjectQuery" -> columnsForObjectQuery(schema, object, database)
    [] fn = "extendedPropertyDescriptionQuery" ->
         extendedPropertyDescriptionQuery(schema, object, database)
    [] fn = "routineDefinitionQuery" -> routineDefinitionQuery(schema, object, database)
    [] fn = "routineParametersQuery" -> routineParametersQuery(schema, object, database)

\* the names given to the builders: letters, single quotes, closing brackets
MaxNameLen == 2
NameChars == {"a", Quote, CloseBracket}
ObjectNames == StringsUpTo(NameChars, MaxNameLen)

\* A caller is about to build the query of one object.
InitQueries ==
  /\ IdleStore
  /\ \E fn \in ObjectQueryBuilders, schema \in ObjectNames, object \in ObjectNames,
        database \in {None} \cup {Some(d) : d \in ObjectNames} :
       probe = [fn |-> fn, schema |-> schema, object |-> object, database |-> database,
                done |-> FALSE, out |-> [scope |-> <<>>, literals |-> <<>>]]

\* The builder returns.
BuildQuery ==
  /\ probe.fn \in ObjectQueryBuilders
  /\ ~probe.done
  /\ probe' = [probe EXCEPT !.done = TRUE,
                            !.out = BuildObjectQuery(probe.fn, probe.schema, probe.object,
                                                     probe.database)]
  /\ UNCHANGED storeVars

NextQueries == BuildQuery

SpecQueries == InitQueries /\ [][NextQueries]_vars

\* ------------------------------------------------- callers of the list methods

ListOperations == {"getTables", "getRoutines", "getForeignKeys"}

\* getForeignKeys returns entry.foreignKeys itself; getTables and getRoutines
\* return a new array ([...entry.tables.values()].filter(..),
\* [...entry.routines.values()]).
ReturnsEntryList(op) == op = "getForeignKeys"

\* The caller of the list method that has just returned removes the last
\* element of the array it was given (list.pop()).  The array is the entry's
\* own when the method returned that one and the call had an entry.
MutateReturnedList ==
  /\ returned.pc = "done"
  /\ ~returned.threw
  /\ returned.op \in ListOperations
  /\ returned.result # <<>>
  /\ cache' = IF ReturnsEntryList(returned.op) /\ returned.key # None /\ returned.live
              THEN [cache EXCEPT ![returned.key[1]] =
                      Some([@[1] EXCEPT !.foreignKeys = SubSeq(@, 1, Len(@) - 1)])]
              ELSE cache
  /\ probe' = [fn |-> "list", op |-> returned.op, key |-> returned.key,
               original |-> returned.result]
  /\ returned' = IdleCall
  /\ installEvent' = IdleCall
  /\ lastCall' = NoCall
  /\ UNCHANGED <<calls, queried, afterInvalidate, lastGetTable, fetchedOk>>

\* The list methods on one connection, one call at a time, with a caller that
\* changes the lists it is given; no invalidate, no dispose.
NextLists ==
  \/ /\ Quiet
     /\ \E c \in Slots, op \in ListOperations : Start(c, op, Some(connA), None)
  \/ \E c \in Slots : BulkDone(c)
  \/ \E c \in Slots : FkDone(c)
  \/ MutateReturnedList

SpecLists == Init /\ [][NextLists]_vars

\* ------------------------------------------------------------ object lookup

\* the entry that ensureCache builds from the catalog with dbo.Ord and dbo.Get
CatalogEntry ==
  LET result == CHOOSE r \in ObjectListResults : Len(r.rows) = 2
      maps == ObjectMaps(result.rows, Len(result.rows))
  IN NewEntry(maps.tables, maps.routines, <<>>)

\* entry.tables.get(toObjectKey(schema, name)) of getTable,
\* entry.routines.get(toObjectKey(schema, name)) of getRoutine
LookupObject(entry, op, schema, name) ==
  IF op = "getTable" THEN MapGet(entry.tables, toObjectKey(schema, name))
  ELSE MapGet(entry.routines, toObjectKey(schema, name))

\* the ways a caller writes the name s: in its own or in lower case, with or
\* without brackets around it, with or without a space before or after
Spellings(s) ==
  {pre \o open \o cased \o close \o post :
     pre \in {<<>>, <<" ">>}, post \in {<<>>, <<" ">>},
     open \in {<<>>}, close \in {<<>>}, cased \in {s, ToLowerCase(s)}}
  \cup
  {pre \o <<OpenBracket>> \o cased \o <<CloseBracket>> \o post :
     pre \in {<<>>, <<" ">>}, post \in {<<>>, <<" ">>}, cased \in {s, ToLowerCase(s)}}

\* A caller is about to look an object up in the entry.
InitLookup ==
  /\ IdleStore
  /\ \E op \in {"getTable", "getRoutine"}, schema \in Spellings(S_dbo),
        name \in Spellings(S_Ord) \cup Spellings(S_Get) :
       probe = [fn |-> op, schema |-> schema, name |-> name, done |-> FALSE, out |-> None]

\* The lookup returns.
Lookup ==
  /\ probe.fn \in {"getTable", "getRoutine"}
  /\ ~probe.done
  /\ probe' = [probe EXCEPT !.done = TRUE,
                            !.out = LookupObject(CatalogEntry, probe.fn, probe.schema,
                                                 probe.name)]
  /\ UNCHANGED storeVars

NextLookup == Lookup

SpecLookup == InitLookup /\ [][NextLookup]_vars

\* ---------------------------------------------------------- connection keys

\* the values of a field of MssqlConnection: absent, or one of two names
FieldValues == {None, Some(<<"a">>), Some(<<"b">>)}

LogicalConnections ==
  [connectionId : FieldValues, server : FieldValues, database : FieldValues,
   user : FieldValues]

\* A caller is about to ask for the keys of two connections.
InitKeys ==
  /\ IdleStore
  /\ \E first \in LogicalConnections, second \in LogicalConnections :
       probe = [fn |-> "getConnectionKey", first |-> first, second |-> second,
                done |-> FALSE, out |-> <<>>]

\* Both calls of getConnectionKey return.
GetKeys ==
  /\ probe.fn = "getConnectionKey"
  /\ ~probe.done
  /\ probe' = [probe EXCEPT !.done = TRUE,
                            !.out = <<getConnectionKey(Some(probe.first)),
                                      getConnectionKey(Some(probe.second))>>]
  /\ UNCHANGED storeVars

NextKeys == GetKeys

SpecKeys == InitKeys /\ [][NextKeys]_vars

\* ------------------------------------------------------ data type formatting

S_decimal == <<"d","e","c","i","m","a","l">>
S_nvarchar == <<"n","v","a","r","c","h","a","r">>

\* the catalog rows handed to formatDataType: a base type with a precision,
\* a scale and a max length that are NULL or a number (the catalog reports
\* no positive scale with precision 0)
TypeRows ==
  {row \in
     {[data_type |-> StrCell(base), precision |-> p, scale |-> s, max_length |-> m] :
        base \in {S_decimal, S_int, S_nvarchar, S_text, S_ntext, S_image},
        p \in {NullCell, NumCell(0), NumCell(10), NumCell(18)},
        s \in {NullCell, NumCell(0), NumCell(2)},
        m \in {NullCell, NumCell(-1), NumCell(0), NumCell(4), NumCell(16)}} :
     ~(row.precision = NumCell(0) /\ row.scale = NumCell(2))}

\* A caller is about to format the type of a row.
InitFormat ==
  /\ IdleStore
  /\ \E row \in TypeRows :
       probe = [fn |-> "formatDataType", row |-> row, done |-> FALSE, out |-> <<>>]

\* formatDataType returns.
FormatType ==
  /\ probe.fn = "formatDataType"
  /\ ~probe.done
  /\ probe' = [probe EXCEPT !.done = TRUE, !.out = formatDataType(probe.row)]
  /\ UNCHANGED storeVars

NextFormat == FormatType

SpecFormat == InitFormat /\ [][NextFormat]_vars

\* ------------------------------------------------- parseQualifiedIdentifier

\* value.replace(/[\[\]]/g, '')
IsNoBracket(char) == char # OpenBracket /\ char # CloseBracket

stripBrackets(value) == SelectSeq(value, IsNoBracket)

normalizeIdentifierPart(value) ==
  IF ~Truthy(value) THEN None
  ELSE LET trimmed == Trim(value[1])
       IN IF Len(trimmed) > 0 THEN Some(trimmed) ELSE None

\* parts.push(current.trim()) under `if (current.trim().length > 0)`
PushPart(parts, current) ==
  IF Len(Trim(current)) > 0 THEN Append(parts, Trim(current)) ELSE parts

\* The loop of tokenizeQualifiedIdentifier from character i on, with the
\* values of its locals, and what follows the loop.
RECURSIVE TokenizeFrom(_, _, _, _, _)
TokenizeFrom(identifier, i, parts, current, bracketDepth) ==
  IF i > Len(identifier) THEN PushPart(parts, current)
  ELSE LET char == identifier[i]
       IN IF char = OpenBracket
          THEN TokenizeFrom(identifier, i + 1, parts, Append(current, char), bracketDepth + 1)
          ELSE IF char = CloseBracket
          THEN TokenizeFrom(identifier, i + 1, parts, Append(current, char),
                            IF bracketDepth - 1 > 0 THEN bracketDepth - 1 ELSE 0)
          ELSE IF char = Dot /\ bracketDepth = 0
          THEN TokenizeFrom(identifier, i + 1, PushPart(parts, current), <<>>, bracketDepth)
          ELSE TokenizeFrom(identifier, i + 1, parts, Append(current, char), bracketDepth)

tokenizeQualifiedIdentifier(identifier) == TokenizeFrom(identifier, 1, <<>>, <<>>, 0)

\* The positions of the characters at which the loop of
\* tokenizeQualifiedIdentifier ends a part (char === '.' && bracketDepth === 0),
\* from character i on.
RECURSIVE SplitsFrom(_, _, _)
SplitsFrom(identifier, i, bracketDepth) ==
  IF i > Len(identifier) THEN {}
  ELSE LET char == identifier[i]
       IN IF char = OpenBracket THEN SplitsFrom(identifier, i + 1, bracketDepth + 1)
          ELSE IF char = CloseBracket
          THEN SplitsFrom(identifier, i + 1, IF bracketDepth - 1 > 0 THEN bracketDepth - 1 ELSE 0)
          ELSE IF char = Dot /\ bracketDepth = 0
          THEN {i} \cup SplitsFrom(identifier, i + 1, bracketDepth)
          ELSE SplitsFrom(identifier, i + 1, bracketDepth)

\* QualifiedIdentifierParts: each part a string or undefined
NoParts == [database |-> None, schema |-> None, object |-> None]

parseQualifiedIdentifier(identifier) ==
  LET parts == tokenizeQualifiedIdentifier(identifier)
      n == Len(parts)
  IN IF n = 0 THEN NoParts
     ELSE [database |-> normalizeIdentifierPart(
                          IF n >= 3 THEN Some(stripBrackets(parts[n - 2])) ELSE None),
           schema |-> normalizeIdentifierPart(
                        IF n >= 2 THEN Some(stripBrackets(parts[n - 1])) ELSE None),
           object |-> normalizeIdentifierPart(Some(stripBrackets(parts[n])))]

\* the identifiers handed to the parser
MaxIdentifierLen == 6
IdentifierChars == {"a", " ", Dot, OpenBracket, CloseBracket}
Identifiers == StringsUpTo(IdentifierChars, MaxIdentifierLen)

\* A caller is about to parse an identifier.
InitIdentifier ==
  /\ IdleStore
  /\ \E identifier \in Identifiers :
       probe = [fn |-> "parseQualifiedIdentifier", identifier |-> identifier,
                done |-> FALSE, splits |-> {}, out |-> NoParts]

\* parseQualifiedIdentifier returns; splits are the positions at which its
\* tokenizer ended a part.
ParseIdentifier ==
  /\ probe.fn = "parseQualifiedIdentifier"
  /\ ~probe.done
  /\ probe' = [probe EXCEPT !.done = TRUE,
                            !.splits = SplitsFrom(probe.identifier, 1, 0),
                            !.out = parseQualifiedIdentifier(probe.identifier)]
  /\ UNCHANGED storeVars

NextIdentifier == ParseIdentifier

SpecIdentifier == InitIdentifier /\ [][NextIdentifier]_vars

\* ------------------------------------------------- analyzeCompletionContext

IsLetter(ch) ==
  \E i \in DOMAIN UpperLetters : UpperLetters[i] = ch \/ LowerLetters[i] = ch

\* \w
IsWordChar(ch) == IsLetter(ch) \/ IsDigit(ch) \/ ch = "_"

\* the character classes of the regular expressions: [\w\]\[] (owner),
\* [\w\[\]\.] (token), [\w\$] (word), [\w\[\]\.\s] (name)
InClass(ch, class) ==
  CASE class = "owner" -> IsWordChar(ch) \/ ch \in {OpenBracket, CloseBracket}
    [] class = "token" -> IsWordChar(ch) \/ ch \in {OpenBracket, CloseBracket, Dot}
    [] class = "word" -> IsWordChar(ch) \/ ch = "$"
    [] class = "name" -> IsWordChar(ch) \/ ch \in {OpenBracket, CloseBracket, Dot} \/ IsSpace(ch)

\* the match of /[class]*$/: the longest suffix of text made of the class
SuffixOf(text, class) ==
  LET starts == {i \in 1..(Len(text) + 1) : \A j \in i..Len(text) : InClass(text[j], class)}
      first == CHOOSE i \in starts : \A j \in starts : i <= j
  IN SubSeq(text, first, Len(text))

\* /([A-Za-z_][\w\$]*)$/i
getLastWord(prefix) ==
  LET suffix == SuffixOf(prefix, "word")
      starts == {i \in 1..Len(suffix) : IsLetter(suffix[i]) \/ suffix[i] = "_"}
  IN IF starts = {} THEN <<>>
     ELSE SubSeq(suffix, CHOOSE i \in starts : \A j \in starts : i <= j, Len(suffix))

\* /([\w\[\]\.]+)$/
getLastToken(prefix) == SuffixOf(prefix, "token")

\* extractOwnerBeforeDot without the removal of the brackets
extractOwnerWithBrackets(text) == SuffixOf(SubSeq(text, 1, Len(text) - 1), "owner")

\* /([\w\]\[]+)$/ on the text without its last character
extractOwnerBeforeDot(text) ==
  stripBrackets(SuffixOf(SubSeq(text, 1, Len(text) - 1), "owner"))

\* [owner, partial] around the last dot of a token that has one
splitToken(token) ==
  LET index == CHOOSE i \in 1..Len(token) :
                 token[i] = Dot /\ \A j \in (i + 1)..Len(token) : token[j] # Dot
  IN <<SubSeq(token, 1, index - 1), SubSeq(token, index + 1, Len(token))>>

\* the segments of a text between its dots: text.split('.')
RECURSIVE SplitAtDots(_, _, _)
SplitAtDots(text, i, current) ==
  IF i > Len(text) THEN <<current>>
  ELSE IF text[i] = Dot THEN <<current>> \o SplitAtDots(text, i + 1, <<>>)
  ELSE SplitAtDots(text, i + 1, Append(current, text[i]))

\* parseRoutineToken without the split at the dots
parseRoutineTokenWhole(token) == [schema |-> None, prefix |-> stripBrackets(Trim(token))]

\* parseRoutineToken: { schema?, prefix }
parseRoutineToken(token) ==
  LET trimmed == Trim(token)
      withoutBrackets == stripBrackets(trimmed)
      segments == SplitAtDots(withoutBrackets, 1, <<>>)
      n == Len(segments)
      \* normalized.split('.'), normalized = withoutBrackets.replace(/\s*\.\s*/g, '.')
      parts == [k \in 1..n |->
                  LET right == IF k < n THEN TrimEnd(segments[k]) ELSE segments[k]
                  IN IF k > 1 THEN TrimStart(right) ELSE right]
      filled == {k \in 1..(n - 1) : parts[k] # <<>>}
  IN IF trimmed = <<>> THEN [schema |-> None, prefix |-> <<>>]
     ELSE [schema |-> IF filled = {} THEN None
                      ELSE Some(parts[CHOOSE k \in filled : \A j \in filled : j <= k]),
           prefix |-> parts[n]]

\* CompletionContextResult
Context(type, prefix, owner, alias, routineCategory) ==
  [type |-> type, prefix |-> prefix, owner |-> owner, alias |-> alias,
   routineCategory |-> routineCategory]

determineRoutineCategory(keyword) ==
  IF keyword = <<"v","i","e","w">> THEN "view"
  ELSE IF keyword = <<"f","u","n","c","t","i","o","n">> THEN "function"
  ELSE "procedure"

buildRoutineContext(token, category) ==
  LET parsed == parseRoutineToken(token)
  IN Context("routine", parsed.prefix, parsed.schema, None, Some(category))

\* text has the keyword word at position i, in any letter case
MatchesAt(text, i, word) ==
  /\ i + Len(word) - 1 <= Len(text)
  /\ ToLowerCase(SubSeq(text, i, i + Len(word) - 1)) = word

\* the positions after one of the keywords words that starts at position i
KeywordEnds(text, i, words) == {i + Len(word) : word \in {w \in words : MatchesAt(text, i, w)}}

\* the position of the first character at or after j that is no whitespace
AfterSpaces(text, j) ==
  CHOOSE k \in j..(Len(text) + 1) :
    /\ \A m \in j..(k - 1) : IsSpace(text[m])
    /\ k = Len(text) + 1 \/ ~IsSpace(text[k])

\* \s+ from one of the positions ends: the positions after the whitespace
SpacedEnds(text, ends) ==
  {AfterSpaces(text, e) : e \in {x \in ends : x <= Len(text) /\ IsSpace(text[x])}}

\* ([\w\[\]\.\s]*)$ from position k
IsNameTail(text, k) == \A j \in k..Len(text) : InClass(text[j], "name")

\* \b before a keyword at position i
WordBoundaryBefore(text, i) == i = 1 \/ ~IsWordChar(text[i - 1])

\* the matches of /\b(exec(?:ute)?|call)\s+([\w\[\]\.\s]*)$/i that start at
\* position i: their second groups
ExecMatchesAt(text, i) ==
  IF ~WordBoundaryBefore(text, i) THEN {}
  ELSE {SubSeq(text, k, Len(text)) :
          k \in {x \in SpacedEnds(text, KeywordEnds(text, i, {<<"e","x","e","c","u","t","e">>, <<"e","x","e","c">>, <<"c","a","l","l">>})) :
                   IsNameTail(text, x)}}

\* the matches of /\b(?:create\s+or\s+alter|create|alter|drop)\s+
\* (procedure|proc|function|view)\s+([\w\[\]\.\s]*)$/i that start at position
\* i: their first and second groups
DdlMatchesAt(text, i) ==
  IF ~WordBoundaryBefore(text, i) THEN {}
  ELSE LET afterCreate == SpacedEnds(text, KeywordEnds(text, i, {<<"c","r","e","a","t","e">>}))
           afterOr == SpacedEnds(text, UNION {KeywordEnds(text, k, {<<"o","r">>}) : k \in afterCreate})
           verbEnds == KeywordEnds(text, i, {<<"c","r","e","a","t","e">>, <<"a","l","t","e","r">>, <<"d","r","o","p">>})
                       \cup UNION {KeywordEnds(text, k, {<<"a","l","t","e","r">>}) : k \in afterOr}
           kindStarts == SpacedEnds(text, verbEnds)
       IN UNION {{[kind |-> kind, token |-> SubSeq(text, k, Len(text))] :
                   k \in {x \in SpacedEnds(text, KeywordEnds(text, s, {kind})) :
                            IsNameTail(text, x)}} :
                 s \in kindStarts,
                 kind \in {<<"p","r","o","c","e","d","u","r","e">>, <<"p","r","o","c">>,
                           <<"f","u","n","c","t","i","o","n">>, <<"v","i","e","w">>}}

\* detectRoutineContext: a CompletionContextResult or undefined
detectRoutineContext(linePrefix) ==
  LET execStarts == {i \in 1..Len(linePrefix) : ExecMatchesAt(linePrefix, i) # {}}
      ddlStarts == {i \in 1..Len(linePrefix) : DdlMatchesAt(linePrefix, i) # {}}
  IN IF execStarts # {}
     THEN LET first == CHOOSE i \in execStarts : \A j \in execStarts : i <= j
              token == CHOOSE t \in ExecMatchesAt(linePrefix, first) : TRUE
          IN Some(buildRoutineContext(token, "procedure"))
     ELSE IF ddlStarts # {}
     THEN LET first == CHOOSE i \in ddlStarts : \A j \in ddlStarts : i <= j
              match == CHOOSE m \in DdlMatchesAt(linePrefix, first) : TRUE
          IN Some(buildRoutineContext(match.token, determineRoutineCategory(match.kind)))
     ELSE None

TABLE_KEYWORDS == {<<"f","r","o","m">>, <<"j","o","i","n">>, <<"u","p","d","a","t","e">>, <<"i","n","t","o">>}
ROUTINE_KEYWORDS == {<<"e","x","e","c">>, <<"e","x","e","c","u","t","e">>, <<"c","a","l","l">>}

\* the whole line in place of its part before the cursor
WholeLine(lineText, character) == lineText

\* text.substring(0, position.character) of the cursor's line
LinePrefixAt(lineText, character) == SubSeq(lineText, 1, character)

\* analyzeCompletionContext(document, position): lineText is
\* document.lineAt(position.line).text, character is position.character
analyzeCompletionContext(lineText, character) ==
  LET linePrefix == LinePrefixAt(lineText, character)
      routineContext == detectRoutineContext(linePrefix)
      trimmedPrefix == TrimEnd(linePrefix)
      lastChar == IF trimmedPrefix = <<>> THEN "" ELSE trimmedPrefix[Len(trimmedPrefix)]
      token == getLastToken(trimmedPrefix)
      prefixWord == getLastWord(trimmedPrefix)
      lowerWord == ToLowerCase(prefixWord)
  IN IF routineContext # None THEN routineContext[1]
     ELSE IF lastChar = Dot
     THEN LET owner == extractOwnerBeforeDot(trimmedPrefix)
          IN Context("column", <<>>, Some(owner), Some(owner), None)
     ELSE IF \E i \in 1..Len(token) : token[i] = Dot
     THEN LET owner == stripBrackets(splitToken(token)[1])
          IN Context("column", stripBrackets(splitToken(token)[2]), Some(owner), Some(owner),
                     None)
     ELSE IF lowerWord \in TABLE_KEYWORDS THEN Context("table", <<>>, None, None, None)
     ELSE IF lowerWord \in ROUTINE_KEYWORDS THEN Context("routine", <<>>, None, None, None)
     ELSE IF lowerWord \in {<<"s","e","l","e","c","t">>, <<"w","h","e","r","e">>, <<"a","n","d">>, <<"o","r">>}
     THEN Context("keyword", <<>>, None, None, None)
     ELSE IF lastChar \in {",", "(", ")"}
     THEN Context("column", <<>>, None, None, None)
     ELSE Context("table", prefixWord, None, None, None)

\* the pieces of which the line texts are made
MaxLexemes == 3
Lexemes == {<<"S","E","L","E","C","T"," ">>, <<"*"," ">>, <<"F","R","O","M"," ">>, <<"f","r","o","m">>, <<"e","x","e","c">>, <<"e","x","e","c"," ">>, <<"c","r","e","a","t","e"," ">>, <<"v","i","e","w"," ">>, <<"t">>, <<".">>, <<",">>, <<"(">>, <<")">>}

RECURSIVE Concat(_)
Concat(pieces) == IF pieces = <<>> THEN <<>> ELSE Head(pieces) \o Concat(Tail(pieces))

\* the texts before the cursor, and what may follow the cursor on the line
LinePrefixes == {Concat(pieces) : pieces \in StringsUpTo(Lexemes, MaxLexemes)}
LineRests == {<<>>, <<" ", "t">>}

\* The editor is about to ask for the completion context at a position.
InitCompletion ==
  /\ IdleStore
  /\ \E prefix \in LinePrefixes, rest \in LineRests :
       probe = [fn |-> "analyzeCompletionContext", lineText |-> prefix \o rest,
                character |-> Len(prefix), done |-> FALSE,
                out |-> Context("none", <<>>, None, None, None)]

\* analyzeCompletionContext returns.
AnalyzeCompletion ==
  /\ probe.fn = "analyzeCompletionContext"
  /\ ~probe.done
  /\ probe' = [probe EXCEPT !.done = TRUE,
                            !.out = analyzeCompletionContext(probe.lineText, probe.character)]
  /\ UNCHANGED storeVars

NextCompletion == AnalyzeCompletion

SpecCompletion == InitCompletion /\ [][NextCompletion]_vars

\* the texts before the cursor in a routine or DDL statement: a verb (with
\* the kind of object for DDL) and the pieces of the name typed so far
MaxNamePieces == 3
RoutineHeads ==
  {[text |-> <<"E","X","E","C"," ">>, category |-> "procedure"],
   [text |-> <<"e","x","e","c","u","t","e"," ">>, category |-> "procedure"],
   [text |-> <<"c","a","l","l"," ">>, category |-> "procedure"],
   [text |-> <<"c","r","e","a","t","e"," ","v","i","e","w"," ">>, category |-> "view"],
   [text |-> <<"A","L","T","E","R"," ","F","U","N","C","T","I","O","N"," ">>, category |-> "function"],
   [text |-> <<"d","r","o","p"," ","p","r","o","c"," ">>, category |-> "procedure"],
   [text |-> <<"c","r","e","a","t","e"," ","o","r"," ","a","l","t","e","r"," ","p","r","o","c","e","d","u","r","e"," ">>, category |-> "procedure"],
   [text |-> <<"d","r","o","p"," "," ","v","i","e","w"," ">>, category |-> "view"]}
NamePieces == {<<"d","b","o">>, <<"s","p","_">>, <<".">>, <<"[">>, <<"]">>}
RoutineNames == {Concat(pieces) : pieces \in StringsUpTo(NamePieces, MaxNamePieces)}

\* The editor is about to ask for the completion context behind a routine name.
InitRoutine ==
  /\ IdleStore
  /\ \E head \in RoutineHeads, name \in RoutineNames, rest \in LineRests :
       probe = [fn |-> "analyzeCompletionContext", lineText |-> head.text \o name \o rest,
                character |-> Len(head.text) + Len(name), done |-> FALSE,
                head |-> head, name |-> name,
                out |-> Context("none", <<>>, None, None, None)]

SpecRoutine == InitRoutine /\ [][NextCompletion]_vars

\* the pieces of the texts in which a name is followed by a dot
DottedPieces == {<<"S","E","L","E","C","T"," ">>, <<"e","x","e","c"," ">>, <<"t">>, <<"[","t","]">>, <<"[">>, <<".">>, <<" ">>, <<",">>}
DottedPrefixes == {Concat(pieces) : pieces \in StringsUpTo(DottedPieces, MaxLexemes)}

\* The editor is about to ask for the completion context behind a dot.
InitDotted ==
  /\ IdleStore
  /\ \E prefix \in DottedPrefixes, rest \in LineRests :
       probe = [fn |-> "analyzeCompletionContext", lineText |-> prefix \o rest,
                character |-> Len(prefix), done |-> FALSE,
                out |-> Context("none", <<>>, None, None, None)]

SpecDotted == InitDotted /\ [][NextCompletion]_vars

\* Two documents around one cursor: the lines before and after the cursor's
\* line and the text behind the cursor differ, the position is the same.
LinesBefore == {<<<<"e","x","e","c"," ","p">>>>, <<<<"f","r","o","m"," ">>>>}
LinesAfter == {<<>>, <<<<"t",".">>>>}
ShortPrefixes == {Concat(pieces) : pieces \in StringsUpTo(Lexemes, MaxLexemes - 1)}
DocumentsAround(prefix) ==
  {before \o <<prefix \o rest>> \o after :
     before \in LinesBefore, rest \in LineRests, after \in LinesAfter}

InitDocuments ==
  /\ IdleStore
  /\ \E prefix \in ShortPrefixes :
       \E first \in DocumentsAround(prefix), second \in DocumentsAround(prefix) :
         probe = [fn |-> "analyzeDocuments", documents |-> <<first, second>>,
                  position |-> [line |-> 2, character |-> Len(prefix)],
                  done |-> FALSE,
                  outs |-> <<Context("none", <<>>, None, None, None),
                             Context("none", <<>>, None, None, None)>>]

\* analyzeCompletionContext returns for each of the two documents.
AnalyzeDocuments ==
  /\ probe.fn = "analyzeDocuments"
  /\ ~probe.done
  /\ probe' = [probe EXCEPT
       !.done = TRUE,
       !.outs = [d \in 1..2 |->
                   analyzeCompletionContext(probe.documents[d][probe.position.line],
                                            probe.position.character)]]
  /\ UNCHANGED storeVars

NextDocuments == AnalyzeDocuments

SpecDocuments == InitDocuments /\ [][NextDocuments]_vars

\* ---------------------------------------------------- findWildcardContext

\* String.prototype.charAt at a zero-based offset
CharAt(text, offset) == IF offset >= 0 /\ offset < Len(text) THEN text[offset + 1] ELSE ""

\* text.replace(/\s+/g, ' ') from character i on
RECURSIVE CollapseWhitespace(_, _)
CollapseWhitespace(text, i) ==
  IF i > Len(text) THEN <<>>
  ELSE IF ~IsSpace(text[i]) THEN <<text[i]>> \o CollapseWhitespace(text, i + 1)
  ELSE IF i > 1 /\ IsSpace(text[i - 1]) THEN CollapseWhitespace(text, i + 1)
  ELSE <<" ">> \o CollapseWhitespace(text, i + 1)

\* String.prototype.indexOf: zero-based, -1 when the pattern does not occur
IndexOf(text, pattern) ==
  LET hits == {i \in 1..Len(text) : i + Len(pattern) - 1 <= Len(text)
                                     /\ SubSeq(text, i, i + Len(pattern) - 1) = pattern}
  IN IF hits = {} THEN -1 ELSE (CHOOSE i \in hits : \A j \in hits : i <= j) - 1

\* text.split(' ') from character i on
RECURSIVE SplitAtSpaces(_, _, _)
SplitAtSpaces(text, i, current) ==
  IF i > Len(text) THEN <<current>>
  ELSE IF text[i] = " " THEN <<current>> \o SplitAtSpaces(text, i + 1, <<>>)
  ELSE SplitAtSpaces(text, i + 1, Append(current, text[i]))

\* value.replace(/[;,]/g, '')
IsNoSeparator(ch) == ch \notin {";", ","}
removeSeparators(value) == SelectSeq(value, IsNoSeparator)

isAliasBoundary(value) ==
  ToLowerCase(value) \in {<<"a","p","p","l","y">>,
     <<"c","r","o","s","s">>,
     <<"i","n","n","e","r">>,
     <<"j","o","i","n">>,
     <<"l","e","f","t">>,
     <<"o","u","t","e","r">>,
     <<"r","i","g","h","t">>,
     <<"f","u","l","l">>,
     <<"w","h","e","r","e">>,
     <<"g","r","o","u","p">>,
     <<"o","r","d","e","r">>,
     <<"h","a","v","i","n","g">>,
     <<"u","n","i","o","n">>,
     <<"i","n","t","e","r","s","e","c","t">>,
     <<"e","x","c","e","p","t">>,
     <<"l","i","m","i","t">>,
     <<"o","f","f","s","e","t">>,
     <<"f","e","t","c","h">>,
     <<"w","i","t","h">>,
     <<"o","n">>,
     <<"u","s","i","n","g">>}

\* parseTableToken: { schema?, object? }
parseTableToken(token) ==
  LET parts == SelectSeq(SplitAtDots(token, 1, <<>>), LAMBDA part : part # <<>>)
      n == Len(parts)
  IN IF n = 0 THEN [schema |-> None, object |-> None]
     ELSE [schema |-> IF n >= 2 THEN Some(stripBrackets(parts[n - 1])) ELSE None,
           object |-> Some(stripBrackets(parts[n]))]

extractAliasFromTokens(tokens) ==
  IF tokens = <<>> THEN None
  ELSE LET first == removeSeparators(tokens[1])
           candidate == IF ToLowerCase(first) = <<"a","s">>
                        THEN IF Len(tokens) >= 2 THEN removeSeparators(tokens[2]) ELSE <<>>
                        ELSE first
       IN IF first = <<>> THEN None
          ELSE IF candidate = <<>> \/ isAliasBoundary(candidate) THEN None
          ELSE Some(stripBrackets(candidate))

\* the first group of /([\w\[\]\.]+)\.\s*$/ in the text before the asterisk
OwnerMatch(beforeText) ==
  LET trimmed == TrimEnd(beforeText)
      group == SuffixOf(SubSeq(trimmed, 1, Len(trimmed) - 1), "token")
  IN IF trimmed # <<>> /\ trimmed[Len(trimmed)] = Dot /\ group # <<>>
     THEN Some(group) ELSE None

\* findWildcardContext(document, position): text is document.getText(),
\* originalOffset is document.offsetAt(position); the range is given by the
\* offsets of its two ends
findWildcardContext(text, originalOffset) ==
  IF CharAt(text, originalOffset) # "*"
     /\ (originalOffset = 0 \/ CharAt(text, originalOffset - 1) # "*")
  THEN None
  ELSE
    LET asteriskOffset == IF CharAt(text, originalOffset) # "*"
                          THEN originalOffset - 1 ELSE originalOffset
        asteriskRange == [start |-> asteriskOffset, end |-> asteriskOffset + 1]
        afterText == SubSeq(text, asteriskOffset + 2, Len(text))
        normalizedAfter == Trim(CollapseWhitespace(afterText, 1))
        lowerAfter == ToLowerCase(normalizedAfter)
        fromIndex == IndexOf(lowerAfter, <<"f","r","o","m"," ">>)
        afterFrom == Trim(SubSeq(normalizedAfter, fromIndex + 6, Len(normalizedAfter)))
        tokens == SplitAtSpaces(afterFrom, 1, <<>>)
        tableToken == removeSeparators(Head(tokens))
        table == parseTableToken(tableToken)
        aliasFromFromClause == extractAliasFromTokens(Tail(tokens))
        beforeText == SubSeq(text, 1, asteriskOffset)
        qualifier == OwnerMatch(beforeText)
        alias == IF qualifier # None THEN qualifier ELSE aliasFromFromClause
    IN IF normalizedAfter = <<>> THEN None
       ELSE IF fromIndex = -1 THEN None
       ELSE IF afterFrom = <<>> THEN None
       ELSE IF tableToken = <<>> THEN None
       ELSE IF table.object = None \/ table.object = Some(<<>>) THEN None
       ELSE Some([target |-> [schema |-> table.schema, object |-> table.object[1],
                              alias |-> alias],
                  asteriskRange |-> asteriskRange])

\* the statements in which a wildcard is looked for: a select list up to the
\* cursor, the rest of the select list and a FROM clause
SelectHeads == {<<"S","E","L","E","C","T"," ">>, <<"S","E","L","E","C","T"," ","b",".">>, <<"S","E","L","E","C","T"," ","[","b","]",".">>}
SelectItems == {<<"*">>, <<"1">>}
SelectRests == {<<" ">>, <<","," ","V","a","l","i","d","F","r","o","m"," ">>}
FromKeywords == {<<>>, <<"F","R","O","M"," ">>, <<"f","r","o","m","\n">>}
FromTables == {<<>>, <<"S","a","l","e","s",".","O","r","d","e","r","s">>, <<"[","t","]",";">>, <<"a",",","b">>}
FromTails == {<<>>, <<" ","o">>, <<" ","A","S"," ","o">>, <<" ","W","H","E","R","E"," ","x">>, <<" ","a"," ","J","O","I","N"," ","u"," ","b">>}

Statements(head) ==
  {head \o item \o rest \o from \o table \o tail :
     item \in SelectItems, rest \in SelectRests, from \in FromKeywords,
     table \in FromTables, tail \in FromTails}

\* The editor is about to ask for the wildcard at a cursor on, before or
\* behind the first item of the select list.
InitWildcard ==
  /\ IdleStore
  /\ \E head \in SelectHeads :
       \E text \in Statements(head), offset \in (Len(head) - 1)..(Len(head) + 2) :
         probe = [fn |-> "findWildcardContext", text |-> text, offset |-> offset,
                  done |-> FALSE, out |-> None]

\* findWildcardContext returns.
FindWildcard ==
  /\ probe.fn = "findWildcardContext"
  /\ ~probe.done
  /\ probe' = [probe EXCEPT !.done = TRUE,
                            !.out = findWildcardContext(probe.text, probe.offset)]
  /\ UNCHANGED storeVars

NextWildcard == FindWildcard

SpecWildcard == InitWildcard /\ [][NextWildcard]_vars

\* ------------------------------------------- the command listener of activate

\* the commands of the MSSQL extension that the listener reacts to
ObservedCommands == {"mssql.connect", "mssql.disconnect", "mssql.refreshObjects"}

MaxCommands == 2

\* The editor with its active connection: no command has run, no listener is
\* waiting.
IdleEditor(active) ==
  [fn |-> "commands", active |-> active, pc |-> "idle", command |-> "none",
   affected |-> None, executed |-> 0]

InitCommands ==
  /\ IdleStore
  /\ \E active \in {None, Some(connA), Some(connB)} : probe = IdleEditor(active)

\* The MSSQL extension has executed a command: connect makes the target the
\* active connection, disconnect leaves no connection active, refreshObjects
\* reloads the objects of the active one. onDidExecuteCommand fires and the
\* listener calls api.getActiveConnection().
ExecuteCommand(command, target) ==
  /\ probe.fn = "commands"
  /\ probe.pc = "idle"
  /\ probe.executed < MaxCommands
  /\ command = "mssql.connect" => target # probe.active
  /\ command # "mssql.connect" => target = probe.active /\ target # None
  /\ probe' = [probe EXCEPT
       !.pc = "getActiveConnection",
       !.command = command,
       !.affected = target,
       !.active = IF command = "mssql.disconnect" THEN None ELSE target,
       !.executed = @ + 1]
  /\ UNCHANGED storeVars

\* api.getActiveConnection() resolves with the connection that is active now
\* and the listener calls schemaCache.invalidate with it.
ListenerInvalidate ==
  /\ probe.fn = "commands"
  /\ probe.pc = "getActiveConnection"
  /\ InvalidateStore(probe.active)
  /\ probe' = [probe EXCEPT !.pc = "idle"]

\* The listener next to callers of getTables on the two connections, one
\* call at a time.
NextCommands ==
  \/ \E command \in ObservedCommands, target \in {Some(connA), Some(connB)} :
       ExecuteCommand(command, target)
  \/ ListenerInvalidate
  \/ /\ Quiet
     /\ \E c \in Slots, connection \in {Some(connA), Some(connB)} :
          Start(c, "getTables", connection, None)
  \/ \E c \in Slots : BulkDone(c)
  \/ \E c \in Slots : FkDone(c)

SpecCommands == InitCommands /\ [][NextCommands]_vars

\* ------------------------------------------------------------ HistoryStore

MaxEntries == 3
MaxSessions == 3
MaxItemsValues == {1, 2}

EntryIds == 1..MaxEntries

\* HistoryEntry: the id stands for randomUUID() and for the timestamp, a later
\* entry has the greater id
HistoryEntry(id, favorite, unsaved) == [id |-> id, favorite |-> favorite, unsaved |-> unsaved]

\* this.entries.unshift(entry); if (this.entries.length > maxItems) this.entries.length = maxItems
unshiftCapped(entries, entry, maxItems) ==
  LET grown == <<entry>> \o entries
  IN IF Len(grown) > maxItems THEN SubSeq(grown, 1, maxItems) ELSE grown

\* persist(): the file after writeFile has succeeded or has thrown (the error
\* is logged); JSON.stringify and JSON.parse keep the three fields
persist(file, entries, written) == IF written THEN Some(entries) ELSE file

\* entry.unsaved = false on the entry id, if it is among the entries
withSaved(entries, id) ==
  [i \in 1..Len(entries) |->
     IF entries[i].id = id THEN [entries[i] EXCEPT !.unsaved = FALSE] ELSE entries[i]]

\* entry.favorite = !entry.favorite on the entry id
withFavoriteToggled(entries, id) ==
  [i \in 1..Len(entries) |->
     IF entries[i].id = id THEN [entries[i] EXCEPT !.favorite = ~@] ELSE entries[i]]

\* The extension is installed, no history file exists, the settings are the
\* user's.
InitHistory ==
  /\ IdleStore
  /\ \E maxItems \in MaxItemsValues, restoreOnStartup \in BOOLEAN :
       probe = [fn |-> "history", phase |-> "inactive", entries |-> <<>>, file |-> None,
                maxItems |-> maxItems, restoreOnStartup |-> restoreOnStartup,
                pending |-> <<>>, restoring |-> FALSE,
                opened |-> [id \in EntryIds |-> 0],
                nextId |-> 1, sessions |-> 0]

\* activate: a new HistoryStore, initialize() reads the file (a missing or
\* unreadable file leaves the entries empty), then restoreUnsavedQueries()
\* starts unless the setting is off: it collects the unsaved entries and
\* opens the first.  The key that activate itself reads is not a setting of
\* the extension and has its default, true.
Activate(readable) ==
  /\ probe.fn = "history"
  /\ probe.phase = "inactive"
  /\ probe.sessions < MaxSessions
  /\ LET entries == IF readable /\ probe.file # None THEN probe.file[1] ELSE <<>>
         unsaved == SelectSeq(entries, LAMBDA entry : entry.unsaved)
     IN probe' = [probe EXCEPT
          !.entries = entries,
          !.sessions = @ + 1,
          !.phase = IF probe.restoreOnStartup THEN "restoring" ELSE "active",
          !.pending = IF probe.restoreOnStartup
                      THEN [i \in 1..Len(unsaved) |-> unsaved[i].id] ELSE <<>>,
          !.restoring = probe.restoreOnStartup /\ unsaved # <<>>]
  /\ UNCHANGED storeVars

\* restoreUnsavedQueries: the document of the next entry is shown,
\* entry.unsaved = false
RestoreOpen ==
  /\ probe.fn = "history"
  /\ probe.phase = "restoring"
  /\ probe.pending # <<>>
  /\ LET id == Head(probe.pending)
     IN probe' = [probe EXCEPT
          !.opened[id] = @ + 1,
          !.entries = withSaved(probe.entries, id),
          !.pending = Tail(@)]
  /\ UNCHANGED storeVars

\* restoreUnsavedQueries: openTextDocument or showTextDocument rejects, the
\* rejection leaves restoreUnsavedQueries and activate
RestoreReject ==
  /\ probe.fn = "history"
  /\ probe.phase = "restoring"
  /\ probe.pending # <<>>
  /\ probe' = [probe EXCEPT !.phase = "failed", !.pending = <<>>, !.restoring = FALSE]
  /\ UNCHANGED storeVars

\* restoreUnsavedQueries: the loop is over, if (unsaved.length) persist()
RestoreFinish(written) ==
  /\ probe.fn = "history"
  /\ probe.phase = "restoring"
  /\ probe.pending = <<>>
  /\ probe' = [probe EXCEPT
       !.phase = "active",
       !.file = IF probe.restoring THEN persist(probe.file, probe.entries, written) ELSE @,
       !.restoring = FALSE]
  /\ UNCHANGED storeVars

\* the commands of the history view are registered before the restore
Usable == probe.fn = "history" /\ probe.phase \in {"restoring", "active"}

\* add(query, connection, options); saveUnsavedQuery(text) is
\* add(text, undefined, {unsaved: true, favorite: true})
Add(blank, options, written) ==
  /\ Usable
  /\ options.unsaved => probe.phase = "active"
  /\ blank \/ probe.nextId <= MaxEntries
  /\ IF blank
     THEN UNCHANGED probe
     ELSE LET entries == unshiftCapped(probe.entries,
                           HistoryEntry(probe.nextId, options.favorite, options.unsaved),
                           probe.maxItems)
          IN probe' = [probe EXCEPT
               !.entries = entries,
               !.file = persist(probe.file, entries, written),
               !.nextId = @ + 1]
  /\ UNCHANGED storeVars

ToggleFavorite(id, written) ==
  /\ Usable
  /\ IF \E i \in 1..Len(probe.entries) : probe.entries[i].id = id
     THEN LET entries == withFavoriteToggled(probe.entries, id)
          IN probe' = [probe EXCEPT
               !.entries = entries,
               !.file = persist(probe.file, entries, written)]
     ELSE UNCHANGED probe
  /\ UNCHANGED storeVars

Delete(id, written) ==
  /\ Usable
  /\ IF \E i \in 1..Len(probe.entries) : probe.entries[i].id = id
     THEN LET entries == SelectSeq(probe.entries, LAMBDA e : e.id # id)
          IN probe' = [probe EXCEPT
               !.entries = entries,
               !.file = persist(probe.file, entries, written)]
     ELSE UNCHANGED probe
  /\ UNCHANGED storeVars

Clear(written) ==
  /\ Usable
  /\ probe' = [probe EXCEPT
       !.entries = <<>>,
       !.file = persist(probe.file, <<>>, written)]
  /\ UNCHANGED storeVars

\* The user changes the setting history.maxItems.
ChangeMaxItems(maxItems) ==
  /\ probe.fn = "history"
  /\ maxItems # probe.maxItems
  /\ probe' = [probe EXCEPT !.maxItems = maxItems]
  /\ UNCHANGED storeVars

\* The window is closed: the store of this session is gone, the file stays.
Deactivate ==
  /\ probe.fn = "history"
  /\ probe.phase \in {"active", "failed"}
  /\ probe' = [probe EXCEPT !.phase = "inactive", !.entries = <<>>]
  /\ UNCHANGED storeVars

NoOptions == [favorite |-> FALSE, unsaved |-> FALSE]
UnsavedOptions == [favorite |-> TRUE, unsaved |-> TRUE]

NextHistory ==
  \/ \E readable \in BOOLEAN : Activate(readable)
  \/ RestoreOpen
  \/ RestoreReject
  \/ \E written \in BOOLEAN : RestoreFinish(written)
  \/ \E blank \in BOOLEAN, options \in {NoOptions, UnsavedOptions}, written \in BOOLEAN :
       Add(blank, options, written)
  \/ \E id \in EntryIds, written \in BOOLEAN : ToggleFavorite(id, written)
  \/ \E id \in EntryIds, written \in BOOLEAN : Delete(id, written)
  \/ \E written \in BOOLEAN : Clear(written)
  \/ \E maxItems \in MaxItemsValues : ChangeMaxItems(maxItems)
  \/ Deactivate

SpecHistory == InitHistory /\ [][NextHistory]_vars

\* ------------------------------------------- MssqlApi: the shared connection

\* Concurrent runQuery, ensureConnection and getActiveConnection calls on one
\* MssqlApi.  Every call is a process that advances from one await to the
\* next; the statements between two awaits run without interleaving.  The
\* connection-sharing service answers nondeterministically.  `opened` holds
\* the URIs connect() has returned and `disconnected` those passed to
\* disconnect(); connect() returns a new URI each time.

MaxApiCalls == 2

MaxUris == 2

ApiCallers == 1..MaxApiCalls

ApiOps == {"runQuery", "ensureConnection", "getActiveConnection"}

ConnectionIds == {"c1", "c2"}

DatabaseNames == {"db1"}

\* a database name or undefined
OptionalDatabases == {<<>>} \cup {<<d>> : d \in DatabaseNames}

RetryCodes == {"NO_ACTIVE_CONNECTION", "INVALID_CONNECTION_URI", "CONNECTION_FAILED"}

PermissionCodes == {"PERMISSION_REQUIRED", "PERMISSION_DENIED"}

SharingCodes ==
  RetryCodes \cup PermissionCodes \cup {"NO_ACTIVE_EDITOR", "EXTENSION_NOT_FOUND", "OTHER"}

\* one call: pc is the await it is suspended at; id, db and uri are the
\* locals connectionId, database and connectionUri; retry says that
\* tryGetActiveConnectionViaSharing runs inside
\* promptForConnectionSharingPermission, inCatch that the prompt was opened
\* from the catch block of runQueryViaSharing; fallback is
\* options.useLegacyFallback !== false (runQuery) or options.prompt !== false
\* (ensureConnection).
IdleApiCall ==
  [pc |-> "idle", op |-> "none", fallback |-> TRUE, attempt |-> 0, execs |-> 0,
   id |-> <<>>, db |-> <<>>, uri |-> 0, retry |-> FALSE,
   inCatch |-> FALSE]

\* what the last step has made visible: the status
\* tryGetActiveConnectionViaSharing returned, the code executeSimpleQuery
\* rejected with, and the public method that ended with its outcome (via: the
\* path that produced it)
NoApiEvent ==
  [status |-> "none", code |-> "none", op |-> "none", outcome |-> "none", via |-> "none"]

IdleApi ==
  [fn |-> "sharing", cachedConnection |-> <<>>, opened |-> {}, disconnected |-> {},
   event |-> NoApiEvent,
   procs |-> [p \in ApiCallers |-> IdleApiCall]]

\* a disconnectCachedConnection that leaves the connection in place
keepCachedConnection(s) == s

\* MssqlApi.disconnectCachedConnection (a throwing disconnect is caught)
disconnectCachedConnection(s) ==
  IF s.cachedConnection = <<>> THEN s
  ELSE [s EXCEPT !.disconnected = @ \cup {s.cachedConnection[1].connectionUri},
                 !.cachedConnection = <<>>]

\* the status the catch block of tryGetActiveConnectionViaSharing returns
StatusOfCode(code) ==
  IF code \in PermissionCodes THEN "permission-required"
  ELSE IF code \in {"NO_ACTIVE_EDITOR", "NO_ACTIVE_CONNECTION", "INVALID_CONNECTION_URI"}
       THEN "no-active-connection"
  ELSE "error"

\* the call of p ends
FinishApiCall(s, p, outcome, via) ==
  [s EXCEPT !.procs[p] = [IdleApiCall EXCEPT !.pc = "done"],
            !.event = [@ EXCEPT !.op = s.procs[p].op, !.outcome = outcome, !.via = via]]

\* runQuery after runQueryViaSharing has returned undefined
AfterSharedUndefined(s, p) ==
  IF s.procs[p].fallback THEN [s EXCEPT !.procs[p].pc = "legacy"]
  ELSE FinishApiCall(s, p, "undefined", "sharing")

\* the caller of ensureConnectionViaSharing (or of the prompt in the catch
\* block of runQueryViaSharing) after it has returned; has: a connection
AfterEnsureViaSharing(s, p, has) ==
  LET c == s.procs[p]
  IN IF c.inCatch THEN AfterSharedUndefined(s, p)
     ELSE IF c.op = "ensureConnection"
          THEN (IF has THEN FinishApiCall(s, p, "connection", "sharing")
                ELSE IF c.fallback THEN [s EXCEPT !.procs[p].pc = "legacy"]
                ELSE FinishApiCall(s, p, "undefined", "sharing"))
     ELSE IF has THEN [s EXCEPT !.procs[p].pc = "acquired"]
     ELSE AfterSharedUndefined(s, p)

\* MssqlApi.tryGetActiveConnectionViaSharing returns `status` to its caller:
\* the retry of promptForConnectionSharingPermission, getActiveConnection or
\* ensureConnectionViaSharing
AfterAcquisition(s0, p, status, shouldPrompt) ==
  LET s == [s0 EXCEPT !.event.status = status]
      c == s.procs[p]
  IN IF c.retry
     THEN AfterEnsureViaSharing([s EXCEPT !.procs[p].retry = FALSE], p, status = "ok")
     ELSE IF c.op = "getActiveConnection"
          THEN (IF status = "ok" THEN FinishApiCall(s, p, "connection", "sharing")
                ELSE [s EXCEPT !.procs[p].pc = "legacy"])
     ELSE IF status = "ok" THEN AfterEnsureViaSharing(s, p, TRUE)
     ELSE IF status = "permission-required" /\ shouldPrompt
          THEN [s EXCEPT !.procs[p].pc = "prompt"]
     ELSE AfterEnsureViaSharing(s, p, FALSE)

\* the state with the event of the last step cleared
Quietly(s) == [s EXCEPT !.event = NoApiEvent]

InitSharing ==
  /\ IdleStore
  /\ probe = IdleApi

\* a public method is called and has awaited getConnectionSharingService;
\* cancelled: the token check at the head of runQueryViaSharing.  Callers are
\* numbered in the order of their calls.
StartApiCall(p, op, fallback, sharing, cancelled) ==
  /\ probe.procs[p].pc = "idle"
  /\ \A q \in ApiCallers : q < p => probe.procs[q].pc # "idle"
  /\ op = "getActiveConnection" => fallback
  /\ cancelled => op = "runQuery"
  /\ LET s == [Quietly(probe) EXCEPT !.procs[p].op = op, !.procs[p].fallback = fallback]
     IN probe' = IF ~sharing
                 THEN (IF fallback THEN [s EXCEPT !.procs[p].pc = "legacy"]
                       ELSE FinishApiCall(s, p, "undefined", "none"))
                 ELSE IF cancelled THEN AfterSharedUndefined(s, p)
                 ELSE [s EXCEPT !.procs[p].pc = "getId"]
  /\ UNCHANGED storeVars

\* await service.getActiveEditorConnectionId resolves with an id, with
\* undefined or rejects with a code
GetActiveEditorConnectionIdDone(p, answer, shouldPrompt) ==
  /\ probe.procs[p].pc = "getId"
  /\ LET s == Quietly(probe)
     IN probe' =
          IF answer \in ConnectionIds
          THEN [s EXCEPT !.procs[p].pc = "getDb", !.procs[p].id = <<answer>>]
          ELSE IF answer = "undefined"
               THEN AfterAcquisition(disconnectCachedConnection(s), p,
                                     "no-active-connection", shouldPrompt)
          ELSE AfterAcquisition(disconnectCachedConnection(s), p,
                                StatusOfCode(answer), shouldPrompt)
  /\ UNCHANGED storeVars

\* the condition needsReconnect of ensureCachedConnection
needsReconnect(cached, connectionId, targetDatabase, isConnected) ==
  \/ cached = <<>>
  \/ cached[1].connectionId # connectionId
  \/ ~isConnected
  \/ (targetDatabase # <<>> /\ cached[1].database # targetDatabase)

\* await getPreferredDatabase resolves (its own failures are caught), then
\* ensureCachedConnection runs up to its await of service.connect
GetPreferredDatabaseDone(p, database, isConnected, shouldPrompt) ==
  /\ probe.procs[p].pc = "getDb"
  /\ LET s == Quietly(probe)
         c == s.procs[p]
     IN probe' =
          IF ~needsReconnect(s.cachedConnection, c.id[1], database, isConnected)
          THEN AfterAcquisition([s EXCEPT !.procs[p].id = <<>>], p, "ok", shouldPrompt)
          ELSE [disconnectCachedConnection(s) EXCEPT !.procs[p].pc = "connect",
                                                     !.procs[p].db = database]
  /\ UNCHANGED storeVars

\* await service.connect resolves with a new URI, with undefined (an Error is
\* thrown) or rejects with a code
ConnectDone(p, answer, shouldPrompt) ==
  /\ probe.procs[p].pc = "connect"
  /\ answer = "uri" => Cardinality(probe.opened) < MaxUris
  /\ LET s == Quietly(probe)
         failed == [s EXCEPT !.procs[p].id = <<>>, !.procs[p].db = <<>>]
     IN probe' =
          IF answer = "uri"
          THEN [s EXCEPT !.opened = @ \cup {Cardinality(s.opened) + 1},
                         !.procs[p].uri = Cardinality(s.opened) + 1,
                         !.procs[p].pc = "meta"]
          ELSE IF answer = "undefined"
               THEN AfterAcquisition(disconnectCachedConnection(failed), p, "error", shouldPrompt)
          ELSE AfterAcquisition(disconnectCachedConnection(failed), p,
                                StatusOfCode(answer), shouldPrompt)
  /\ UNCHANGED storeVars

\* await resolveConnectionMetadata resolves (its failures are caught) and
\* ensureCachedConnection assigns this.cachedConnection; metadataDb is
\* metadata.database
ResolveConnectionMetadataDone(p, metadataDb, shouldPrompt) ==
  /\ probe.procs[p].pc = "meta"
  /\ LET s == Quietly(probe)
         c == s.procs[p]
         connection == [connectionId |-> c.id[1], connectionUri |-> c.uri,
                        database |-> IF c.db # <<>> THEN c.db ELSE metadataDb]
     IN probe' = AfterAcquisition([s EXCEPT !.cachedConnection = <<connection>>,
                                            !.procs[p].id = <<>>, !.procs[p].db = <<>>,
                                            !.procs[p].uri = 0],
                                  p, "ok", shouldPrompt)
  /\ UNCHANGED storeVars

\* runQueryViaSharing resumes after `await this.ensureConnectionViaSharing`:
\* the token check, the read of this.cachedConnection and the call of
\* executeSimpleQuery
IssueExecuteSimpleQuery(p, cancelled) ==
  /\ probe.procs[p].pc = "acquired"
  /\ LET s == Quietly(probe)
     IN probe' = IF cancelled \/ s.cachedConnection = <<>>
                 THEN AfterSharedUndefined(s, p)
                 ELSE [s EXCEPT !.procs[p].pc = "exec", !.procs[p].execs = @ + 1]
  /\ UNCHANGED storeVars

ExecAnswers == {"rows", "nothing"} \cup SharingCodes

\* await service.executeSimpleQuery resolves or rejects
ExecuteSimpleQueryDone(p, answer, cancelled, shouldPrompt) ==
  /\ probe.procs[p].pc = "exec"
  /\ LET s == Quietly(probe)
         c == s.procs[p]
         failed == [s EXCEPT !.event.code = answer]
     IN probe' =
          IF answer = "rows"
          THEN (IF cancelled THEN AfterSharedUndefined(s, p)
                ELSE FinishApiCall(s, p, "result", "sharing"))
          ELSE IF answer = "nothing" THEN AfterSharedUndefined(s, p)
          ELSE IF answer \in RetryCodes /\ c.attempt = 0
               THEN [disconnectCachedConnection(failed) EXCEPT !.procs[p].attempt = 1,
                                                               !.procs[p].pc = "getId"]
          ELSE IF answer \in PermissionCodes /\ shouldPrompt
               THEN [failed EXCEPT !.procs[p].pc = "prompt", !.procs[p].inCatch = TRUE]
          ELSE AfterSharedUndefined(failed, p)
  /\ UNCHANGED storeVars

\* await vscode.window.showWarningMessage resolves with the chosen button
PermissionPromptDone(p, choice) ==
  /\ probe.procs[p].pc = "prompt"
  /\ LET s == Quietly(probe)
     IN probe' = IF choice # "Manage Permissions" THEN AfterEnsureViaSharing(s, p, FALSE)
                 ELSE [s EXCEPT !.procs[p].pc = "command"]
  /\ UNCHANGED storeVars

\* await executeCommand(editConnectionSharingPermissions) resolves or rejects;
\* nothing catches the rejection
PermissionCommandDone(p, rejects) ==
  /\ probe.procs[p].pc = "command"
  /\ LET s == Quietly(probe)
     IN probe' = IF rejects THEN FinishApiCall(s, p, "throws", "sharing")
                 ELSE [s EXCEPT !.procs[p].pc = "getId", !.procs[p].retry = TRUE]
  /\ UNCHANGED storeVars

\* getActiveConnectionLegacy, ensureConnectionLegacy or runQueryLegacy ends
\* the call; they do not touch the shared connection
LegacyOutcomes(op) ==
  IF op = "runQuery" THEN {"result", "undefined", "throws"}
  ELSE IF op = "ensureConnection" THEN {"connection", "undefined", "throws"}
  ELSE {"connection", "undefined"}

LegacyDone(p, outcome) ==
  /\ probe.procs[p].pc = "legacy"
  /\ outcome \in LegacyOutcomes(probe.procs[p].op)
  /\ probe' = FinishApiCall(Quietly(probe), p, outcome, "legacy")
  /\ UNCHANGED storeVars

\* MssqlApi.dispose
DisposeApi ==
  /\ \E p \in ApiCallers : probe.procs[p].pc # "idle"
  /\ probe' = disconnectCachedConnection(Quietly(probe))
  /\ UNCHANGED storeVars

NextSharing ==
  \/ \E p \in ApiCallers, op \in ApiOps, fallback, sharing, cancelled \in BOOLEAN :
       StartApiCall(p, op, fallback, sharing, cancelled)
  \/ \E p \in ApiCallers, answer \in ConnectionIds \cup {"undefined"} \cup SharingCodes,
        shouldPrompt \in BOOLEAN :
       GetActiveEditorConnectionIdDone(p, answer, shouldPrompt)
  \/ \E p \in ApiCallers, database \in OptionalDatabases,
        isConnected, shouldPrompt \in BOOLEAN :
       GetPreferredDatabaseDone(p, database, isConnected, shouldPrompt)
  \/ \E p \in ApiCallers, answer \in {"uri", "undefined"} \cup SharingCodes,
        shouldPrompt \in BOOLEAN :
       ConnectDone(p, answer, shouldPrompt)
  \/ \E p \in ApiCallers, metadataDb \in OptionalDatabases, shouldPrompt \in BOOLEAN :
       ResolveConnectionMetadataDone(p, metadataDb, shouldPrompt)
  \/ \E p \in ApiCallers, cancelled \in BOOLEAN : IssueExecuteSimpleQuery(p, cancelled)
  \/ \E p \in ApiCallers, answer \in ExecAnswers, cancelled, shouldPrompt \in BOOLEAN :
       ExecuteSimpleQueryDone(p, answer, cancelled, shouldPrompt)
  \/ \E p \in ApiCallers, choice \in {"Manage Permissions", "Cancel"} :
       PermissionPromptDone(p, choice)
  \/ \E p \in ApiCallers, rejects \in BOOLEAN : PermissionCommandDone(p, rejects)
  \/ \E p \in ApiCallers, outcome \in {"result", "connection", "undefined", "throws"} :
       LegacyDone(p, outcome)
  \/ DisposeApi

SpecSharing == InitSharing /\ [][NextSharing]_vars

\* --------------------------------------- HistoryStore: overlapping mutations

\* add, toggleFavorite, delete and clear change this.entries and call
\* persist(), which serialises this.entries at once and then awaits
\* writeFile; nothing waits for an earlier writeFile, so several writes can
\* be outstanding and they complete in any order.  `writes` holds the
\* outstanding writes, each with the content serialised when it was issued;
\* here every write succeeds and history.maxItems keeps its value.

MaxWrites == 3

\* persist() up to its await: one more outstanding write of the entries
withWriteIssued(s, entries) ==
  [s EXCEPT !.entries = entries,
            !.issued = @ + 1,
            !.writes = @ \cup {[n |-> s.issued + 1, content |-> entries]}]

InitOverlap ==
  /\ IdleStore
  /\ probe = [fn |-> "overlap", entries |-> <<>>, file |-> None, writes |-> {},
              nextId |-> 1, issued |-> 0]

AddOverlapping(options) ==
  /\ probe.issued < MaxWrites
  /\ probe.nextId <= MaxEntries
  /\ probe' = [withWriteIssued(probe,
                 unshiftCapped(probe.entries,
                               HistoryEntry(probe.nextId, options.favorite, options.unsaved),
                               MaxEntries))
               EXCEPT !.nextId = @ + 1]
  /\ UNCHANGED storeVars

ToggleFavoriteOverlapping(id) ==
  /\ probe.issued < MaxWrites
  /\ \E i \in 1..Len(probe.entries) : probe.entries[i].id = id
  /\ probe' = withWriteIssued(probe, withFavoriteToggled(probe.entries, id))
  /\ UNCHANGED storeVars

DeleteOverlapping(id) ==
  /\ probe.issued < MaxWrites
  /\ \E i \in 1..Len(probe.entries) : probe.entries[i].id = id
  /\ probe' = withWriteIssued(probe, SelectSeq(probe.entries, LAMBDA e : e.id # id))
  /\ UNCHANGED storeVars

ClearOverlapping ==
  /\ probe.issued < MaxWrites
  /\ probe' = withWriteIssued(probe, <<>>)
  /\ UNCHANGED storeVars

\* await vscode.workspace.fs.writeFile resolves: the file holds the content
\* of this write
WriteFileDone(w) ==
  /\ w \in probe.writes
  /\ probe' = [probe EXCEPT !.file = persist(probe.file, w.content, TRUE),
                            !.writes = @ \ {w}]
  /\ UNCHANGED storeVars

NextOverlap ==
  \/ \E options \in {NoOptions, UnsavedOptions} : AddOverlapping(options)
  \/ \E id \in EntryIds : ToggleFavoriteOverlapping(id)
  \/ \E id \in EntryIds : DeleteOverlapping(id)
  \/ ClearOverlapping
  \/ \E w \in probe.writes : WriteFileDone(w)

SpecOverlap == InitOverlap /\ [][NextOverlap]_vars

\* ------------------------------------------------------- INSERT generator

\* registerInsertGenerator: the command, the document-change listener and the
\* generations they start share the flag suppressDocumentChanges.  A
\* generation is a process that advances from one await to the next.  The
\* editor applies a snippet insertion, delivers its change event to the
\* listener and only then resolves insertSnippet.

MaxGenerations == 3

Generations == 1..MaxGenerations

\* the text of the line an edit starts in, after the edit
InsertLines ==
  {<<>>,
   <<"i", "n", "s", "e", "r", "t", " ", "i", "n", "t", "o", " ", "t">>,
   <<"I", "N", "S", "E", "R", "T", " ", " ", "I", "N", "T", "O", " ", "[", "a", "]", ".", "t", ";">>,
   <<"i", "n", "s", "e", "r", "t", " ", "i", "n", "t", "o", " ", "f", "(", "x", ")">>,
   <<" ", " ", " ", " ", "@", "a", ",">>}

\* [\w$@#]
IsNameChar(ch) == IsWordChar(ch) \/ ch \in {"$", "@", "#"}

\* the index of the first character at or after i that is not white space
RECURSIVE SkipSpaces(_, _)
SkipSpaces(text, i) ==
  IF i <= Len(text) /\ IsSpace(text[i]) THEN SkipSpaces(text, i + 1) ELSE i

\* /^insert\s+into\s+(.+?)$/i on a trimmed line: the captured text
MatchInsertInto(lineText) ==
  LET lower == ToLowerCase(lineText)
      into == SkipSpaces(lower, 7)
      rest == SkipSpaces(lower, into + 4)
  IN IF /\ Len(lower) >= 6
        /\ SubSeq(lower, 1, 6) = <<"i", "n", "s", "e", "r", "t">>
        /\ into > 7
        /\ into + 3 <= Len(lower)
        /\ SubSeq(lower, into, into + 3) = <<"i", "n", "t", "o">>
        /\ rest > into + 4
        /\ rest <= Len(lower)
     THEN Some(SubSeq(lineText, rest, Len(lineText)))
     ELSE None

\* value.replace(/[;,]+$/, '')
RECURSIVE StripTrailingSeparators(_)
StripTrailingSeparators(text) ==
  IF text # <<>> /\ text[Len(text)] \in {";", ","}
  THEN StripTrailingSeparators(SubSeq(text, 1, Len(text) - 1))
  ELSE text

\* the positions at which [A-Za-z_][\w$@#]* can end when its characters up
\* to j - 1 are read
RECURSIVE PlainEnds(_, _)
PlainEnds(text, j) ==
  {j} \cup (IF j <= Len(text) /\ IsNameChar(text[j]) THEN PlainEnds(text, j + 1) ELSE {})

\* the positions at which \[(?:[^\]]|\]\])+\] can end; units: one unit of the
\* group has been read
RECURSIVE BracketEnds(_, _, _)
BracketEnds(text, j, units) ==
  (IF units /\ j <= Len(text) /\ text[j] = "]" THEN {j + 1} ELSE {})
  \cup (IF j <= Len(text) /\ text[j] # "]" THEN BracketEnds(text, j + 1, TRUE) ELSE {})
  \cup (IF j + 1 <= Len(text) /\ text[j] = "]" /\ text[j + 1] = "]"
        THEN BracketEnds(text, j + 2, TRUE) ELSE {})

\* one part of the identifier pattern starting at i
PartEnds(text, i) ==
  IF i > Len(text) THEN {}
  ELSE IF text[i] = "[" THEN BracketEnds(text, i + 1, FALSE)
  ELSE IF IsLetter(text[i]) \/ text[i] = "_" THEN PlainEnds(text, i + 1)
  ELSE {}

\* \s* from j
RECURSIVE SpaceEnds(_, _)
SpaceEnds(text, j) ==
  {j} \cup (IF j <= Len(text) /\ IsSpace(text[j]) THEN SpaceEnds(text, j + 1) ELSE {})

\* \s*\.\s* and one more part from j
NextPartEnds(text, j) ==
  UNION {IF k <= Len(text) /\ text[k] = "."
         THEN UNION {PartEnds(text, m) : m \in SpaceEnds(text, k + 1)}
         ELSE {} : k \in SpaceEnds(text, j)}

\* identifierPattern.test(text): one to three parts, then white space
MatchesIdentifierPattern(text) ==
  LET one == PartEnds(text, 1)
      two == UNION {NextPartEnds(text, j) : j \in one}
      three == UNION {NextPartEnds(text, j) : j \in two}
  IN \E j \in one \cup two \cup three : Len(text) + 1 \in SpaceEnds(text, j)

\* the body of the listener's loop for a change that starts in a line with
\* this text: the arguments it hands to generateInsert, if any
InsertTarget(line) ==
  LET lineText == Trim(line)
      match == MatchInsertInto(lineText)
      commentAt == IndexOf(match[1], <<"-", "-">>)
      uncommented == IF commentAt = -1 THEN match[1] ELSE SubSeq(match[1], 1, commentAt)
      identifierText == StripTrailingSeparators(Trim(uncommented))
      qualified == parseQualifiedIdentifier(identifierText)
  IN IF match = None THEN None
     ELSE IF identifierText = <<>> THEN None
     ELSE IF \E i \in 1..Len(identifierText) : identifierText[i] = "(" THEN None
     ELSE IF ~MatchesIdentifierPattern(identifierText) THEN None
     ELSE IF ~Truthy(qualified.object) THEN None
     ELSE Some(qualified)

InsertTargets == [line \in InsertLines |-> InsertTarget(line)]

\* the listener up to its call of generateInsert: whether it makes the call
\* for a change event in the active SQL editor
ListenerStarts(suppressDocumentChanges, newline, rangeLength, line) ==
  /\ ~suppressDocumentChanges
  /\ newline
  /\ rangeLength = 0
  /\ InsertTargets[line] # None

IdleGeneration == [pc |-> "idle", line |-> <<>>]

\* started: what has called generateInsert in the last step
InitInsert ==
  /\ IdleStore
  /\ probe = [fn |-> "insert", suppressDocumentChanges |-> FALSE, started |-> "none",
              gens |-> [g \in Generations |-> IdleGeneration]]

FreeGeneration(g) ==
  /\ probe.gens[g].pc = "idle"
  /\ \A h \in Generations : h < g => probe.gens[h].pc # "idle"

\* generateInsert up to `await api.ensureConnection`
generateInsertBegins(s, g, started) ==
  [s EXCEPT !.gens[g].pc = "connection", !.started = started]

\* the command handler; sqlEditor: the active editor holds an SQL document
InvokeCommand(g, sqlEditor) ==
  /\ FreeGeneration(g)
  /\ probe' = IF probe.suppressDocumentChanges \/ ~sqlEditor
              THEN [probe EXCEPT !.started = "none"]
              ELSE generateInsertBegins(probe, g, "command")
  /\ UNCHANGED storeVars

\* the user edits the active SQL document and the listener runs
UserEdit(g, newline, rangeLength, line) ==
  /\ FreeGeneration(g)
  /\ probe' = IF ListenerStarts(probe.suppressDocumentChanges, newline, rangeLength, line)
              THEN generateInsertBegins(probe, g, "typed")
              ELSE [probe EXCEPT !.started = "none"]
  /\ UNCHANGED storeVars

\* generateInsert returns false without an error
generateInsertReturns(s, g) ==
  [s EXCEPT !.gens[g] = IdleGeneration, !.started = "none"]

\* the catch block of generateInsert
generateInsertCatches(s, g) ==
  [s EXCEPT !.gens[g] = IdleGeneration, !.started = "none",
            !.suppressDocumentChanges = FALSE]

\* await api.ensureConnection({prompt: false}) resolves or rejects; named: a
\* table name is known from the arguments or from the cursor
EnsureConnectionDone(g, answer, named) ==
  /\ probe.gens[g].pc = "connection"
  /\ probe' = IF answer = "throws" THEN generateInsertCatches(probe, g)
              ELSE IF answer = "undefined" \/ ~named THEN generateInsertReturns(probe, g)
              ELSE [probe EXCEPT !.gens[g].pc = "table", !.started = "none"]
  /\ UNCHANGED storeVars

\* await schemaCache.getTable resolves or rejects; with insertable columns
\* the flag is set and insertSnippet is called at the cursor, which is in line
GetTableDone(g, answer, line) ==
  /\ probe.gens[g].pc = "table"
  /\ probe' = IF answer = "throws" THEN generateInsertCatches(probe, g)
              ELSE IF answer # "columns" THEN generateInsertReturns(probe, g)
              ELSE [probe EXCEPT !.gens[g] = [pc |-> "insert", line |-> line],
                                 !.started = "none",
                                 !.suppressDocumentChanges = TRUE]
  /\ UNCHANGED storeVars

\* the editor applies the snippet of g and the listener receives the change:
\* the snippet begins with a line break and replaces nothing
SnippetApplied(g) ==
  /\ probe.gens[g].pc = "insert"
  /\ LET s == [probe EXCEPT !.gens[g].pc = "applied", !.started = "none"]
     IN IF ListenerStarts(probe.suppressDocumentChanges, TRUE, 0, probe.gens[g].line)
        THEN \E h \in Generations :
               /\ FreeGeneration(h)
               /\ probe' = generateInsertBegins(s, h, "snippet")
        ELSE probe' = s
  /\ UNCHANGED storeVars

\* await editor.insertSnippet resolves (applied or not) or rejects: the
\* finally block clears the flag
InsertSnippetDone(g) ==
  /\ probe.gens[g].pc \in {"insert", "applied"}
  /\ probe' = generateInsertCatches(probe, g)
  /\ UNCHANGED storeVars

NextInsert ==
  \/ \E g \in Generations, sqlEditor \in BOOLEAN : InvokeCommand(g, sqlEditor)
  \/ \E g \in Generations, newline \in BOOLEAN, rangeLength \in {0, 1}, line \in InsertLines :
       UserEdit(g, newline, rangeLength, line)
  \/ \E g \in Generations, answer \in {"connection", "undefined", "throws"}, named \in BOOLEAN :
       EnsureConnectionDone(g, answer, named)
  \/ \E g \in Generations, answer \in {"columns", "nothing", "throws"}, line \in InsertLines :
       GetTableDone(g, answer, line)
  \/ \E g \in Generations : SnippetApplied(g)
  \/ \E g \in Generations : InsertSnippetDone(g)

SpecInsert == InitInsert /\ [][NextInsert]_vars

\* ------------------------------------------- INSERT generator: the columns

\* generateInsert on a table of the catalog: the column query is answered
\* from sys.columns with the columns its select list names, populateColumns
\* maps the rows, and the statement lists the columns the filter keeps.

MaxColumns == 2

ColumnNames == <<S_id, S_note>>

\* a row of sys.columns joined with sys.types, sys.extended_properties and
\* sys.default_constraints
CatalogColumn(name, identity, computed, rowguid) ==
  [column_name |-> StrCell(name), data_type |-> StrCell(S_int),
   max_length |-> NumCell(4), precision |-> NumCell(10), scale |-> NumCell(0),
   is_nullable |-> NumCell(0), description |-> NullCell,
   is_identity |-> NumCell(identity), is_computed |-> NumCell(computed),
   is_rowguidcol |-> NumCell(rowguid), default_definition |-> NullCell]

CatalogTables ==
  UNION {{[i \in 1..n |-> CatalogColumn(ColumnNames[i], flags[i][1], flags[i][2], flags[i][3])] :
            flags \in [1..n -> {0, 1} \X {0, 1} \X {0, 1}]} : n \in 0..MaxColumns}

\* the select list of columnsForObjectQuery (the names after AS, or the
\* column's own name)
ColumnsSelectList ==
  <<"column_name", "data_type", "max_length", "precision", "scale", "is_nullable",
    "description">>

\* the QueryResult of the column query on a table of the catalog
columnsQueryResult(catalog) ==
  Some([columns |-> ColumnsSelectList,
        rows |-> [i \in 1..Len(catalog) |->
                    [c \in {ColumnsSelectList[k] : k \in 1..Len(ColumnsSelectList)} |->
                       catalog[i][c]]]])

\* table.columns.filter(column => !column.isIdentity && !column.isComputed && !column.isRowGuid)
insertableColumns(columns) ==
  SelectSeq(columns, LAMBDA column :
              ~column.isIdentity /\ ~column.isComputed /\ ~column.isRowGuid)

\* wrapIdentifier
wrapIdentifier(identifier) ==
  IF /\ identifier # <<>>
     /\ IsLetter(identifier[1]) \/ identifier[1] = "_"
     /\ \A i \in 2..Len(identifier) : IsWordChar(identifier[i])
  THEN identifier
  ELSE <<"[">> \o Concat([i \in 1..Len(identifier) |->
                            IF identifier[i] = "]" THEN <<"]", "]">> ELSE <<identifier[i]>>])
       \o <<"]">>

InitInsertColumns ==
  /\ IdleStore
  /\ \E catalog \in CatalogTables :
       probe = [fn |-> "insertColumns", catalog |-> catalog, done |-> FALSE,
                columns |-> <<>>, listed |-> None]

\* generateInsert from getTable's columns to the column list of the snippet
\* (buildInsertSnippet); no statement is made when no column is insertable
GenerateInsertColumns ==
  /\ probe.fn = "insertColumns"
  /\ ~probe.done
  /\ LET table == populateColumns(NewTable(S_dbo, S_Ord, "TABLE"),
                                  columnsQueryResult(probe.catalog))
         insertable == insertableColumns(table.columns[1])
     IN probe' = [probe EXCEPT
          !.done = TRUE,
          !.columns = table.columns[1],
          !.listed = IF insertable = <<>> THEN None
                     ELSE Some([i \in 1..Len(insertable) |-> wrapIdentifier(insertable[i].name)])]
  /\ UNCHANGED storeVars

NextInsertColumns == GenerateInsertColumns

SpecInsertColumns == InitInsertColumns /\ [][NextInsertColumns]_vars

\* ---------------------------------------------------------- expandWildcard

\* The expandWildcard command on a statement with the cursor at its first
\* select item: findWildcardContext, getTable, the optional quick pick and the
\* edit that replaces asteriskRange.

COLUMN_PICK_THRESHOLD == 12

\* the first n letters as column names
ColumnsNamed(n) == [i \in 1..n |-> <<LowerLetters[i]>>]

\* table.columns as getTable delivers them: absent, empty, below and at the
\* threshold of the quick pick
TableColumnLists == {None, Some(<<>>), Some(ColumnsNamed(2)), Some(ColumnsNamed(COLUMN_PICK_THRESHOLD))}

ExpandStatements(head) ==
  {head \o <<"*", " ">> \o from \o table \o tail :
     from \in {<<>>, <<"F", "R", "O", "M", " ">>},
     table \in {<<"S", "a", "l", "e", "s", ".", "O", "r", "d", "e", "r", "s">>, <<"[", "t", "]", ";">>},
     tail \in {<<>>, <<" ", "o">>, <<" ", "A", "S", " ", "o">>}}

\* position.character of an offset: the offset within its line
RECURSIVE CharacterOf(_, _)
CharacterOf(text, offset) ==
  IF offset = 0 \/ text[offset] = "\n" THEN 0 ELSE 1 + CharacterOf(text, offset - 1)

\* ' '.repeat(n)
Spaces(n) == [i \in 1..n |-> " "]

\* the text of the edit: the columns, each behind the qualifier if there is
\* one, joined by ",\n" and indented from the second on
columnText(qualifier, indent, columns) ==
  Join([i \in 1..Len(columns) |->
          (IF i = 1 THEN <<>> ELSE indent)
          \o (IF qualifier # <<>> THEN qualifier \o <<".">> ELSE <<>>)
          \o <<"[">> \o columns[i] \o <<"]">>],
       <<",", "\n">>)

\* editBuilder.replace(range, replacement) on the document text
replaceRange(text, range, replacement) ==
  SubSeq(text, 1, range.start) \o replacement \o SubSeq(text, range.end + 1, Len(text))

InitExpand ==
  /\ IdleStore
  /\ \E head \in SelectHeads, columns \in TableColumnLists :
       \E text \in ExpandStatements(head), offset \in Len(head)..(Len(head) + 2) :
         probe = [fn |-> "expandWildcard", text |-> text, offset |-> offset,
                  columns |-> columns, done |-> FALSE, edited |-> FALSE,
                  dismissed |-> FALSE, chosen |-> <<>>, out |-> text]

\* the command handler from findWildcardContext on; useQuickPick is the
\* setting expandWildcard.quickPick, picked what showQuickPick resolves with
ExpandWildcard(useQuickPick, picked) ==
  /\ probe.fn = "expandWildcard"
  /\ ~probe.done
  /\ LET wildcard == findWildcardContext(probe.text, probe.offset)
         asked == /\ wildcard # None
                  /\ probe.columns # None
                  /\ useQuickPick
                  /\ Len(probe.columns[1]) >= COLUMN_PICK_THRESHOLD
         columns == IF ~asked \/ picked = "all" THEN probe.columns[1]
                    ELSE SubSeq(probe.columns[1], 1, 1)
         qualifier == IF wildcard[1].target.alias # None
                      THEN wildcard[1].target.alias[1] ELSE <<>>
         indent == Spaces(CharacterOf(probe.text, wildcard[1].asteriskRange.start))
     IN /\ ~asked => picked = "all"
        /\ probe' =
             IF wildcard = None THEN [probe EXCEPT !.done = TRUE]
             ELSE IF probe.columns = None \/ probe.columns = Some(<<>>)
                  THEN [probe EXCEPT !.done = TRUE]
             ELSE IF asked /\ picked = "undefined"
                  THEN [probe EXCEPT !.done = TRUE, !.dismissed = TRUE]
             ELSE [probe EXCEPT
                     !.done = TRUE, !.edited = TRUE, !.chosen = columns,
                     !.out = replaceRange(probe.text, wildcard[1].asteriskRange,
                                          columnText(qualifier, indent, columns))]
  /\ UNCHANGED storeVars

NextExpand ==
  \E useQuickPick \in BOOLEAN, picked \in {"all", "first", "undefined"} :
    ExpandWildcard(useQuickPick, picked)

SpecExpand == InitExpand /\ [][NextExpand]_vars

\* ------------------------------------------------------------- properties

\* the table dbo.Ord as the entry of key k stores it
StoredTable(k) ==
  IF cache[k] = None THEN None
  ELSE MapGet(cache[k][1].tables, toObjectKey(S_dbo, S_Ord))

\* C1: a getTables call that is the first call on its key after invalidate
\* has dropped the key's entry (no call outstanding then) awaits the
\* object-list query again; when it returns, it returns the tables and views
\* of the rows that query gave it, from the entry it has installed.
C1_RefetchAfterInvalidate ==
  /\ \A c \in Slots : calls[c].stale => calls[c].pc \in {"bulk", "fk"}
  /\ (returned.pc = "done" /\ returned.stale /\ ~returned.threw) =>
       /\ installEvent.pc \in {"bulk", "fk"}
       /\ installEvent.bulk # "none"
       /\ returned.result = SelectSeq(MapValues(installEvent.maps.tables), IsTableOrView)
       /\ cache[returned.key[1]] # None
       /\ returned.result = TablesOf(cache[returned.key[1]][1])

C1_Witness ==
  /\ returned.pc = "done" /\ returned.op = "getTables"
  /\ returned.stale /\ ~returned.threw
  /\ Len(returned.result) > 0

\* C2: an object-list query that fails leaves no entry in the cache.
C2_FailedFetchStoresNothing ==
  installEvent.pc # "idle" => installEvent.bulk # "failed"

\* C3: a call whose token has fired while its snapshot queries were
\* outstanding installs no entry and returns no result.
C3_CancelledFetchStoresNothing ==
  /\ installEvent.pc # "idle" => ~installEvent.cancelled
  /\ (returned.pc = "done" /\ returned.cancelled) => returned.result = <<>>

\* call r names a target database other than its connection's own
OtherDatabase(r) ==
  /\ r.op = "getTable"
  /\ r.conn # None
  /\ Truthy(r.optDb)
  /\ \/ ~Truthy(r.conn[1].database)
     \/ ToLowerCase(r.optDb[1]) # ToLowerCase(r.conn[1].database[1])

\* C4: a getTable for another database than the connection's own never uses
\* the cache entry of the connection's key.
C4_OtherDatabaseBypassesCache ==
  /\ \A c \in Slots : (InFlight(calls[c]) /\ OtherDatabase(calls[c])) => calls[c].key = None
  /\ (returned.pc = "done" /\ OtherDatabase(returned)) => returned.key = None

\* C5 as the specification states it: the second of two getTable calls in
\* sequence returns what the first returned, and issues no query for a field
\* the first call filled.
C5_SecondCallIdentical ==
  (returned.pc = "done" /\ returned.prev # None /\ ~returned.threw) =>
    /\ returned.result = returned.prev[1]
    /\ returned.prev[1] # None =>
         /\ returned.prev[1][1].columns # None =>
              returned.issued \cap {"cols", "odCols"} = {}
         /\ Truthy(returned.prev[1][1].description) =>
              returned.issued \cap {"desc", "odDesc"} = {}

\* C5: the second of two getTable calls in sequence issues no query for a
\* field the first call returned filled, and when it returns, it returns the
\* same object with every such field equal; a field the first call left
\* absent is queried again and may be filled.
C5_FilledFieldsKept ==
  (returned.pc = "done" /\ returned.prev # None /\ returned.prev[1] # None) =>
    LET first == returned.prev[1][1]
    IN /\ first.columns # None => returned.issued \cap {"cols", "odCols"} = {}
       /\ Truthy(first.description) => returned.issued \cap {"desc", "odDesc"} = {}
       /\ ~returned.threw =>
            /\ returned.result # None
            /\ returned.result[1].schema = first.schema
            /\ returned.result[1].name = first.name
            /\ returned.result[1].type = first.type
            /\ first.columns # None => returned.result[1].columns = first.columns
            /\ Truthy(first.description) =>
                 returned.result[1].description = first.description

C5_Witness ==
  /\ returned.pc = "done" /\ ~returned.threw
  /\ returned.prev # None /\ returned.prev[1] # None
  /\ returned.prev[1][1].columns # None
  /\ ~Truthy(returned.prev[1][1].description)
  /\ returned.result # None
  /\ returned.result[1].columns = returned.prev[1][1].columns
  /\ Truthy(returned.result[1].description)
  /\ returned.issued = {"desc"}

\* C6: between two invalidations of a key no call installs an entry over
\* one already there, and no call issues a second object-list query.
C6_OneInstallOneQuery ==
  /\ \A c \in Slots : ~calls[c].requeried
  /\ installEvent.pc # "idle" => ~installEvent.replaced /\ ~installEvent.requeried

\* C7: a lazy field of dbo.Ord that a call has fetched into the entry of its
\* key stays in that entry.
C7_FetchedFieldsStay ==
  \A k \in Keys :
    /\ "columns" \in fetchedOk[k] =>
         StoredTable(k) # None /\ StoredTable(k)[1].columns # None
    /\ "description" \in fetchedOk[k] =>
         StoredTable(k) # None /\ Truthy(StoredTable(k)[1].description)

\* C8: a call whose connection resolves to no key awaits no query and
\* returns empty.
C8_NoKeyNoQuery ==
  /\ \A c \in Slots : InFlight(calls[c]) => ConnectionKeys[calls[c].conn] # None
  /\ (returned.pc = "done" /\ ConnectionKeys[returned.conn] = None) =>
       /\ returned.issued = {}
       /\ returned.result = <<>>
       /\ ~returned.threw

\* C9: no call rejects.
C9_NoCallRejects == returned.pc = "done" => ~returned.threw

\* C10: invalidate removes the entry of its connection's key and leaves
\* every other entry as it is; dispose removes every entry.
C10_InvalidateOneDisposeAll ==
  [][/\ lastCall'.op = "invalidate" =>
          \A k \in Keys : cache'[k] = IF lastCall'.key = Some(k) THEN None ELSE cache[k]
     /\ lastCall'.op = "dispose" => \A k \in Keys : cache'[k] = None]_vars

C10_Witness ==
  /\ lastCall.op = "invalidate"
  /\ lastCall.key = ConnectionKeys[Some(connA)]
  /\ afterInvalidate[lastCall.key[1]]
  /\ StoredTable(ConnectionKeys[Some(connB)][1]) # None
  /\ StoredTable(ConnectionKeys[Some(connB)][1])[1].columns # None
  /\ Truthy(StoredTable(ConnectionKeys[Some(connB)][1])[1].description)

\* In a single-quoted literal every single quote is one of a doubled pair.
RECURSIVE QuotesDoubled(_)
QuotesDoubled(text) ==
  IF text = <<>> THEN TRUE
  ELSE IF Head(text) = Quote
       THEN Len(text) >= 2 /\ text[2] = Quote /\ QuotesDoubled(Tail(Tail(text)))
       ELSE QuotesDoubled(Tail(text))

\* In the body of a bracket-quoted name every ] is one of a doubled pair.
RECURSIVE BracketsDoubled(_)
BracketsDoubled(text) ==
  IF text = <<>> THEN TRUE
  ELSE IF Head(text) = CloseBracket
       THEN Len(text) >= 2 /\ text[2] = CloseBracket /\ BracketsDoubled(Tail(Tail(text)))
       ELSE BracketsDoubled(Tail(text))

\* text is empty or one bracket-quoted name followed by a dot
IsQuotedScope(text) ==
  \/ text = <<>>
  \/ /\ Len(text) >= 3
     /\ text[1] = OpenBracket
     /\ text[Len(text) - 1] = CloseBracket
     /\ text[Len(text)] = Dot
     /\ BracketsDoubled(SubSeq(text, 2, Len(text) - 2))

\* C11: in the text of every per-object catalog query the names are escaped:
\* inside each single-quoted literal (the OBJECT_ID(N'...') argument of the
\* column and parameter queries included) every single quote is doubled, and
\* the bracket-quoted database scope has every ] doubled.
C11_NamesEscaped ==
  (probe.fn \in ObjectQueryBuilders /\ probe.done) =>
    /\ \A i \in 1..Len(probe.out.literals) : QuotesDoubled(probe.out.literals[i])
    /\ IsQuotedScope(probe.out.scope)

\* C12: after a caller has changed a list that getTables, getRoutines or
\* getForeignKeys returned to it, a later call of the same method on the
\* same key (nothing fetched in between) returns the contents that the list
\* had when it was returned.
C12_ReturnedListsAreCopies ==
  (/\ probe.fn = "list"
   /\ returned.pc = "done" /\ ~returned.threw
   /\ returned.op = probe.op /\ returned.key = probe.key)
    => returned.result = probe.original

\* a name without the brackets around it
Unquoted(name) ==
  IF Len(name) >= 2 /\ name[1] = OpenBracket /\ name[Len(name)] = CloseBracket
  THEN SubSeq(name, 2, Len(name) - 1)
  ELSE name

\* two names that differ only in letter case, surrounding whitespace and
\* bracket-quoting
SameName(a, b) == ToLowerCase(Unquoted(Trim(a))) = ToLowerCase(Unquoted(Trim(b)))

\* C13: a lookup with (schema, name) written in another letter case, with
\* surrounding whitespace or in brackets finds the object that the lookup
\* with the stored spelling finds: the table dbo.Ord for getTable, the
\* routine dbo.Get for getRoutine.
C13_LookupIgnoresSpelling ==
  (probe.fn \in {"getTable", "getRoutine"} /\ probe.done) =>
    \A stored \in {S_Ord, S_Get} :
      (SameName(probe.schema, S_dbo) /\ SameName(probe.name, stored))
        => probe.out = LookupObject(CatalogEntry, probe.fn, S_dbo, stored)

\* C14: two connections that differ in connectionId, server, database or
\* user get different connection keys.
C14_KeyInjective ==
  (probe.fn = "getConnectionKey" /\ probe.done /\ probe.first # probe.second)
    => probe.out[1] # probe.out[2]

\* the row's base type, and its numbers where they are known
BaseOf(row) == row.data_type.v
PrecisionOf(row) == toNumber(row.precision)
ScaleOf(row) == toNumber(row.scale)
MaxLengthOf(row) == toNumber(row.max_length)

\* BASE(inner)
Parenthesized(base, inner) == base \o <<"(">> \o inner \o <<")">>

\* text has the form BASE(precision, scale): only that form holds a comma
InPrecisionScaleForm(text) == \E i \in 1..Len(text) : text[i] = ","

\* C15: formatDataType returns BASE(precision, scale) exactly when the
\* precision is known and the scale is known and greater than zero; a row
\* whose scale is 0 or unknown is not rendered in that form.
C15_PrecisionScaleForm ==
  (probe.fn = "formatDataType" /\ probe.done) =>
    LET row == probe.row
        p == PrecisionOf(row)
        s == ScaleOf(row)
    IN IF p # None /\ s # None /\ s[1] > 0
       THEN probe.out = Parenthesized(BaseOf(row),
                                      NumToStr(p[1]) \o <<",", " ">> \o NumToStr(s[1]))
       ELSE ~InPrecisionScaleForm(probe.out)

\* C16: for a row whose precision and scale are not both known, or are both
\* zero (the precision/scale form is out of the question), formatDataType
\* returns the bare base type for text, ntext and image, and for the other
\* types BASE(max) when the max length is -1 and BASE(length) when the max
\* length is known and positive.
C16_LengthForm ==
  (probe.fn = "formatDataType" /\ probe.done) =>
    LET row == probe.row
        p == PrecisionOf(row)
        s == ScaleOf(row)
        m == MaxLengthOf(row)
        base == BaseOf(row)
    IN (p = None \/ s = None \/ (p[1] <= 0 /\ s[1] <= 0)) =>
         IF base \in {S_text, S_ntext, S_image} THEN probe.out = base
         ELSE IF m # None /\ m[1] = -1 THEN probe.out = Parenthesized(base, S_max)
         ELSE IF m # None /\ m[1] > 0 THEN probe.out = Parenthesized(base, NumToStr(m[1]))
         ELSE TRUE

\* the part that a segment yields: absent when it is empty or all whitespace
PartOfSegment(segment) == IF Trim(segment) = <<>> THEN None ELSE Some(Trim(segment))

\* the part that the segment at position k yields, absent when there is none
PartAt(segments, k) == IF k >= 1 THEN PartOfSegment(segments[k]) ELSE None

\* C17: for an identifier without brackets whose segments are not all blank,
\* object is the rightmost non-blank segment, schema the segment before it and
\* database the one before that; a segment that is empty or all whitespace
\* yields an absent part, never an empty string; further leading segments
\* are dropped.
C17_RightToLeft ==
  (/\ probe.fn = "parseQualifiedIdentifier" /\ probe.done
   /\ \A i \in 1..Len(probe.identifier) : IsNoBracket(probe.identifier[i])) =>
    LET segments == SplitAtDots(probe.identifier, 1, <<>>)
        filled == {k \in 1..Len(segments) : PartOfSegment(segments[k]) # None}
    IN IF filled = {} THEN probe.out = NoParts
       ELSE LET last == CHOOSE k \in filled : \A j \in filled : j <= k
            IN probe.out = [database |-> PartAt(segments, last - 2),
                            schema |-> PartAt(segments, last - 1),
                            object |-> PartAt(segments, last)]

\* the name that the body of a bracket-quoted segment denotes: ]] is one ]
RECURSIVE UnescapeBrackets(_)
UnescapeBrackets(body) ==
  IF body = <<>> THEN <<>>
  ELSE IF Head(body) = CloseBracket /\ Len(body) >= 2 /\ body[2] = CloseBracket
       THEN <<CloseBracket>> \o UnescapeBrackets(Tail(Tail(body)))
       ELSE <<Head(body)>> \o UnescapeBrackets(Tail(body))

\* text is one bracket-quoted segment: [ body ], the body without [ and
\* without dot, every ] in it doubled
IsQuotedSegment(text) ==
  /\ Len(text) >= 2
  /\ text[1] = OpenBracket
  /\ text[Len(text)] = CloseBracket
  /\ LET body == SubSeq(text, 2, Len(text) - 1)
     IN /\ \A i \in 1..Len(body) : body[i] # OpenBracket /\ body[i] # Dot
        /\ BracketsDoubled(body)

\* C18: an identifier that is one bracket-quoted segment yields as object the
\* name its body denotes, each ]] of the body kept as one ] ("[a]]b]" gives
\* "a]b").
C18_EscapedBracketKept ==
  (/\ probe.fn = "parseQualifiedIdentifier" /\ probe.done
   /\ IsQuotedSegment(probe.identifier)) =>
    LET name == Trim(UnescapeBrackets(SubSeq(probe.identifier, 2, Len(probe.identifier) - 1)))
    IN name # <<>> => probe.out = [database |-> None, schema |-> None, object |-> Some(name)]

\* The positions of the dots of a text from position i on that lie outside
\* every bracket-quoted segment; a segment opened by [ closes at the first ]
\* that is not the first of a pair ]].
RECURSIVE OutsideDots(_, _, _)
OutsideDots(text, i, inside) ==
  IF i > Len(text) THEN {}
  ELSE LET char == text[i]
       IN IF inside
          THEN IF char = CloseBracket /\ i < Len(text) /\ text[i + 1] = CloseBracket
               THEN OutsideDots(text, i + 2, TRUE)
               ELSE OutsideDots(text, i + 1, char # CloseBracket)
          ELSE (IF char = Dot THEN {i} ELSE {})
               \cup OutsideDots(text, i + 1, char = OpenBracket)

\* a bracket-quoted segment of the text is still open at its end
RECURSIVE EndsInside(_, _, _)
EndsInside(text, i, inside) ==
  IF i > Len(text) THEN inside
  ELSE IF inside
       THEN IF text[i] = CloseBracket /\ i < Len(text) /\ text[i + 1] = CloseBracket
            THEN EndsInside(text, i + 2, TRUE)
            ELSE EndsInside(text, i + 1, text[i] # CloseBracket)
       ELSE EndsInside(text, i + 1, text[i] = OpenBracket)

\* C19: in an identifier whose bracket-quoted segments are all closed, the
\* parser ends a part only at a dot that lies outside every bracket-quoted
\* segment: a dot inside a bracket-quoted segment, also one after an escaped
\* ]], starts no new part.
C19_SplitOutsideBrackets ==
  (/\ probe.fn = "parseQualifiedIdentifier" /\ probe.done
   /\ ~EndsInside(probe.identifier, 1, FALSE)) =>
    probe.splits \subseteq OutsideDots(probe.identifier, 1, FALSE)

\* The type and prefix that the ordered rules give for the text before the
\* cursor, the first rule whose condition holds deciding; closers are the
\* characters of rule 5.
RuledContext(linePrefix, closers) ==
  LET trimmed == TrimEnd(linePrefix)
      routine == detectRoutineContext(linePrefix)
      token == getLastToken(trimmed)
      word == ToLowerCase(getLastWord(trimmed))
  IN IF routine # None                                               \* rule 1
     THEN [type |-> "routine", prefix |-> routine[1].prefix]
     ELSE IF trimmed # <<>> /\ trimmed[Len(trimmed)] = Dot           \* rule 2
     THEN [type |-> "column", prefix |-> <<>>]
     ELSE IF \E i \in 1..Len(token) : token[i] = Dot                 \* rule 3
     THEN [type |-> "column", prefix |-> stripBrackets(splitToken(token)[2])]
     ELSE IF word \in TABLE_KEYWORDS                                 \* rule 4
     THEN [type |-> "table", prefix |-> <<>>]
     ELSE IF word \in ROUTINE_KEYWORDS
     THEN [type |-> "routine", prefix |-> <<>>]
     ELSE IF word \in {<<"s","e","l","e","c","t">>, <<"w","h","e","r","e">>,
                       <<"a","n","d">>, <<"o","r">>}
     THEN [type |-> "keyword", prefix |-> <<>>]
     ELSE IF trimmed # <<>> /\ trimmed[Len(trimmed)] \in closers     \* rule 5
     THEN [type |-> "column", prefix |-> <<>>]
     ELSE [type |-> "table", prefix |-> getLastWord(trimmed)]        \* rule 6

\* C20: analyzeCompletionContext returns the type and prefix of the first
\* rule that matches, in the order: routine or DDL verb with a partial name;
\* trimmed text ends with a dot; last token contains a dot; last word is a
\* table, routine or statement keyword; text ends with , or ( (column);
\* fallback table with the partially typed word as prefix.
C20_FirstRuleWins ==
  (probe.fn = "analyzeCompletionContext" /\ probe.done) =>
    LET ruled == RuledContext(SubSeq(probe.lineText, 1, probe.character), {",", "("})
    IN probe.out.type = ruled.type /\ probe.out.prefix = ruled.prefix

\* the dotted segments of a routine name typed so far, brackets left out
SegmentsTyped(name) == SplitAtDots(SelectSeq(name, IsNoBracket), 1, <<>>)

\* the rightmost-but-one segment is typed, or no segment left of the
\* rightmost one is
OwnerSegmentPlain(segments) ==
  LET n == Len(segments)
  IN n < 2 \/ segments[n - 1] # <<>> \/ \A k \in 1..(n - 1) : segments[k] = <<>>

RECURSIVE TokenEndingAt(_, _)
TokenEndingAt(text, i) ==
  IF i >= 1 /\ (IsWordChar(text[i]) \/ ~IsNoBracket(text[i]))
  THEN Append(TokenEndingAt(text, i - 1), text[i])
  ELSE <<>>

\* the text before the cursor of the probe, trailing whitespace left out
TrimmedBeforeCursor == TrimEnd(SubSeq(probe.lineText, 1, probe.character))

\* the text before the cursor ends with a dot (trailing whitespace ignored)
\* and is no routine or DDL context
EndsWithDot ==
  /\ probe.fn = "analyzeCompletionContext"
  /\ TrimmedBeforeCursor # <<>>
  /\ TrimmedBeforeCursor[Len(TrimmedBeforeCursor)] = Dot
  /\ detectRoutineContext(SubSeq(probe.lineText, 1, probe.character)) = None

\* C22: when the text before the cursor (trailing whitespace ignored) ends
\* with a dot and no routine or DDL context matches, the result is type
\* column with empty prefix and owner = alias = the identifier token directly
\* before the dot, its bracket characters removed.
C22_DotGivesColumn ==
  (probe.done /\ EndsWithDot) =>
    LET owner == SelectSeq(TokenEndingAt(TrimmedBeforeCursor, Len(TrimmedBeforeCursor) - 1),
                           IsNoBracket)
    IN /\ probe.out.type = "column"
       /\ probe.out.prefix = <<>>
       /\ probe.out.owner = Some(owner)
       /\ probe.out.alias = Some(owner)

\* "SELECT [t]." has been analysed: owner and alias are t
C22_Witness ==
  /\ probe.done /\ EndsWithDot
  /\ SubSeq(probe.lineText, 1, probe.character)
       = <<"S","E","L","E","C","T"," ","[","t","]",".">>
  /\ probe.out.owner = Some(<<"t">>)
  /\ probe.out.alias = Some(<<"t">>)

\* the text of the cursor's line strictly before the cursor in document d
TextBeforeCursor(d) ==
  SubSeq(probe.documents[d][probe.position.line], 1, probe.position.character)

\* C23: the result of analyzeCompletionContext depends only on the text of
\* the cursor's line strictly before the cursor: two documents that agree on
\* that text give the same result, whatever follows the cursor or stands on
\* other lines.
C23_OnlyTextBeforeCursor ==
  (/\ probe.fn = "analyzeDocuments" /\ probe.done
   /\ TextBeforeCursor(1) = TextBeforeCursor(2)) =>
    probe.outs[1] = probe.outs[2]

\* two documents that differ in every other line and behind the cursor have
\* been analysed at "t." and both gave a column context
C23_Witness ==
  /\ probe.fn = "analyzeDocuments" /\ probe.done
  /\ TextBeforeCursor(1) = <<"t",".">>
  /\ TextBeforeCursor(2) = TextBeforeCursor(1)
  /\ \A l \in 1..2 : probe.documents[1][l] # probe.documents[2][l]
  /\ Len(probe.documents[1]) # Len(probe.documents[2])
  /\ probe.outs[1].type = "column"
  /\ probe.outs[2] = probe.outs[1]

\* the zero-based offset of the asterisk at the cursor of the probe, or of
\* the one directly before it
AsteriskAtCursor ==
  IF CharAt(probe.text, probe.offset) = "*" THEN probe.offset ELSE probe.offset - 1

HasAsteriskAtCursor ==
  CharAt(probe.text, probe.offset) = "*" \/ CharAt(probe.text, probe.offset - 1) = "*"

\* the positions k of a text behind a FROM keyword and the whitespace that
\* follows it: the keyword is the whole word "from" in any case
AfterFromKeyword(text) ==
  UNION {SpacedEnds(text, {i + 4}) : i \in {s \in 1..Len(text) :
           MatchesAt(text, s, <<"f","r","o","m">>) /\ WordBoundaryBefore(text, s)}}

\* the token of a text that starts at position k and ends before the next
\* whitespace
RECURSIVE TokenFrom(_, _)
TokenFrom(text, k) ==
  IF k > Len(text) \/ IsSpace(text[k]) THEN <<>>
  ELSE <<text[k]>> \o TokenFrom(text, k + 1)

\* the table tokens that stand behind a FROM keyword of the text: a token
\* that names something
TableTokensAfterFrom(text) ==
  {token \in {TokenFrom(text, k) : k \in AfterFromKeyword(text)} :
     \E i \in 1..Len(token) : IsWordChar(token[i])}

\* C24: findWildcardContext returns absent when neither the character at the
\* cursor nor the one directly before it is '*', and absent when no FROM
\* keyword followed by a table token stands behind the wildcard; otherwise it
\* returns the span of exactly the one '*' character.
C24_WildcardLocated ==
  (probe.fn = "findWildcardContext" /\ probe.done) =>
    LET afterText == SubSeq(probe.text, AsteriskAtCursor + 2, Len(probe.text))
    IN IF ~HasAsteriskAtCursor THEN probe.out = None
       ELSE IF TableTokensAfterFrom(afterText) = {} THEN probe.out = None
       ELSE /\ probe.out # None
            /\ probe.out[1].asteriskRange = [start |-> AsteriskAtCursor,
                                             end |-> AsteriskAtCursor + 1]
            /\ CharAt(probe.text, probe.out[1].asteriskRange.start) = "*"

\* the whitespace-delimited tokens of a text from position k on
RECURSIVE TokensFrom(_, _)
TokensFrom(text, k) ==
  LET start == AfterSpaces(text, k)
      token == TokenFrom(text, start)
  IN IF start > Len(text) THEN <<>>
     ELSE <<token>> \o TokensFrom(text, start + Len(token))

\* a token without the ',' and ';' at its end
RECURSIVE WithoutTrailingSeparators(_)
WithoutTrailingSeparators(token) ==
  IF token # <<>> /\ token[Len(token)] \in {",", ";"}
  THEN WithoutTrailingSeparators(SubSeq(token, 1, Len(token) - 1))
  ELSE token

\* the tokens behind the first FROM keyword that follows the asterisk at the
\* cursor of the probe
TokensAfterFrom ==
  LET afterText == SubSeq(probe.text, AsteriskAtCursor + 2, Len(probe.text))
      starts == AfterFromKeyword(afterText)
  IN IF starts = {} THEN <<>>
     ELSE TokensFrom(afterText, CHOOSE k \in starts : \A j \in starts : k <= j)

\* the qualifier that stands directly before the asterisk at the cursor, if any
QualifierBeforeAsterisk ==
  LET beforeText == SubSeq(probe.text, 1, AsteriskAtCursor)
      name == SuffixOf(SubSeq(beforeText, 1, Len(beforeText) - 1), "token")
  IN IF beforeText # <<>> /\ beforeText[Len(beforeText)] = Dot /\ name # <<>>
     THEN Some(name) ELSE None

\* the alias that follows the table name among the tokens behind FROM, if any
AliasAfterTable(tokens) ==
  LET rest == Tail(tokens)
      candidate ==
        IF rest = <<>> THEN <<>>
        ELSE IF ToLowerCase(rest[1]) = <<"a","s">>
        THEN IF Len(rest) >= 2 THEN WithoutTrailingSeparators(rest[2]) ELSE <<>>
        ELSE WithoutTrailingSeparators(rest[1])
  IN IF candidate = <<>> \/ isAliasBoundary(candidate) THEN None ELSE Some(candidate)

\* two optional names are the same but for their brackets
SameOptionalName(a, b) ==
  /\ (a = None) = (b = None)
  /\ a # None => stripBrackets(a[1]) = stripBrackets(b[1])

\* C25: findWildcardContext takes the first token after FROM as the table
\* (its rightmost segment the object, the one before it the schema, brackets
\* stripped); the alias is the qualifier directly before the wildcard if
\* there is one, else the token that follows the table name (optionally
\* after AS) unless it is a clause keyword, else absent.
C25_TableAndAlias ==
  (/\ probe.fn = "findWildcardContext" /\ probe.done
   /\ probe.out # None /\ TokensAfterFrom # <<>>) =>
    LET segments == SplitAtDots(WithoutTrailingSeparators(TokensAfterFrom[1]), 1, <<>>)
        n == Len(segments)
        target == probe.out[1].target
    IN /\ target.object = stripBrackets(segments[n])
       /\ target.schema = IF n >= 2 THEN Some(stripBrackets(segments[n - 1])) ELSE None
       /\ SameOptionalName(target.alias,
                           IF QualifierBeforeAsterisk # None THEN QualifierBeforeAsterisk
                           ELSE AliasAfterTable(TokensAfterFrom))

\* the object named by a table token: its rightmost segment without brackets
ObjectOfToken(token) ==
  LET segments == SplitAtDots(WithoutTrailingSeparators(token), 1, <<>>)
  IN stripBrackets(segments[Len(segments)])

\* the positions of the table tokens among the tokens behind FROM: the first
\* token and each token behind a JOIN
TableReferences(tokens) ==
  {p \in 1..Len(tokens) : p = 1 \/ ToLowerCase(tokens[p - 1]) = <<"j","o","i","n">>}

\* the objects of the tables that carry the alias in the FROM/JOIN clauses
TablesWithAlias(tokens, alias) ==
  {ObjectOfToken(tokens[p]) : p \in {r \in TableReferences(tokens) :
     AliasAfterTable(SubSeq(tokens, r, Len(tokens))) = Some(alias)}}

\* C26: for a qualified wildcard (alias.*) the returned target object is the
\* table that carries that alias in the FROM/JOIN clauses; for an unqualified
\* wildcard it is the first table of the FROM clause.
C26_OwningTable ==
  (/\ probe.fn = "findWildcardContext" /\ probe.done
   /\ probe.out # None /\ TokensAfterFrom # <<>>) =>
    IF QualifierBeforeAsterisk = None
    THEN probe.out[1].target.object = ObjectOfToken(TokensAfterFrom[1])
    ELSE LET owners == TablesWithAlias(TokensAfterFrom,
                                       stripBrackets(QualifierBeforeAsterisk[1]))
         IN owners # {} => probe.out[1].target.object \in owners

\* C27: when an mssql.connect, mssql.disconnect or mssql.refreshObjects
\* command is observed, invalidate is applied to the key of the connection
\* affected by the command: when the listener has run, that connection has
\* no CacheEntry, also after a disconnect that leaves no connection active.
C27_AffectedInvalidated ==
  [][(/\ probe.fn = "commands"
      /\ probe.pc = "getActiveConnection"
      /\ probe'.pc = "idle") =>
       cache'[ConnectionKeys[probe.affected][1]] = None]_vars

\* the ids of a sequence of history entries
IdsOf(entries) == {entries[i].id : i \in 1..Len(entries)}

\* C28: in every state reached through the operations of the HistoryStore
\* the number of retained entries is at most history.maxItems, and when add
\* exceeds the cap it is the oldest entries that are dropped.
C28_CapKept ==
  [][probe.fn = "history" =>
       /\ Len(probe'.entries) <= probe'.maxItems
       /\ (probe'.nextId = probe.nextId + 1
           /\ Len(probe.entries) + 1 > probe.maxItems) =>
            \A dropped \in (IdsOf(probe.entries) \cup {probe.nextId}) \ IdsOf(probe'.entries) :
              \A kept \in IdsOf(probe'.entries) : dropped < kept]_vars

\* the ids of the entries of a sequence that are flagged unsaved
UnsavedIds(entries) == {entries[i].id : i \in {j \in 1..Len(entries) : entries[j].unsaved}}

\* the ids flagged unsaved in the persisted file
UnsavedInFile(file) == IF file = None THEN {} ELSE UnsavedIds(file[1])

\* C29: with restoreOnStartup enabled every entry flagged unsaved is reopened
\* by restoreUnsavedQueries exactly once: it reopens each of them, when it
\* has completed no entry is flagged unsaved in memory or in the persisted
\* file, and no later activation reopens an entry again; with the setting
\* disabled nothing is reopened and no flag changes.
C29_ReopenedOnce ==
  [][probe.fn = "history" =>
       IF probe.restoreOnStartup
       THEN /\ \A id \in EntryIds : probe'.opened[id] <= 1
            /\ (probe.phase = "restoring" /\ probe'.phase = "active") =>
                 /\ UnsavedIds(probe'.entries) = {}
                 /\ UnsavedInFile(probe'.file) = {}
            /\ (probe.phase = "inactive" /\ probe'.phase = "restoring") =>
                 UnsavedIds(probe'.entries) = {probe'.pending[i] : i \in 1..Len(probe'.pending)}
       ELSE /\ probe'.opened = probe.opened
            /\ UnsavedIds(probe.entries) \cap IdsOf(probe'.entries) \subseteq UnsavedIds(probe'.entries)
            /\ probe.phase = "inactive" => probe'.file = probe.file]_vars

\* C30: a getTable for an object that its CacheEntry does not hold issues an
\* on-demand column query; when that query returns no rows or fails,
\* getTable returns absent and leaves the tables map as it is; when it
\* returns columns, the new TableMetadata is stored under the object's key.
C30_OnDemandLoad ==
  [][\A c \in Slots :
       LET r == calls[c]
           key == toObjectKey(r.schema, r.name)
       IN (r.op = "getTable" /\ r.mode = "miss") =>
            /\ "odCols" \in r.issued
            /\ (r.pc = "odCols" /\ calls'[c].pc = "idle") =>
                 /\ ~returned'.threw
                 /\ returned'.result = None
                 /\ cache' = cache
            /\ (r.pc = "odDesc" /\ calls'[c].pc # "odDesc" /\ r.live) =>
                 LET stored == MapGet(cache'[r.key[1]][1].tables, key)
                 IN /\ stored # None
                    /\ stored[1].columns = r.table[1].columns
                    /\ stored[1].columns[1] # <<>>]_vars

\* the keys of a Map
MapKeySet(m) == {m[i].key : i \in 1..Len(m)}

\* C31: getRoutine for a routine that the routines map of its CacheEntry
\* does not hold returns absent, issues no definition or parameter query and
\* adds nothing to the entry; the keys of a routines map are those of the
\* bulk snapshot that installed the entry.
C31_RoutineMissIsAbsent ==
  [][/\ (/\ returned'.pc = "done" /\ returned'.op = "getRoutine"
         /\ ~returned'.threw /\ returned'.live
         /\ ~MapHas(cache'[returned'.key[1]][1].routines,
                    toObjectKey(returned'.schema, returned'.name))) =>
          /\ returned'.result = None
          /\ returned'.issued = {}
     /\ \A k \in Keys :
          (cache'[k] # None /\ installEvent' = IdleCall) =>
            /\ cache[k] # None
            /\ MapKeySet(cache'[k][1].routines) = MapKeySet(cache[k][1].routines)]_vars

\* a getRoutine has just returned absent for a routine that the populated
\* entry of its key does not hold, and has issued no query of its own
C31_Witness ==
  /\ returned.pc = "done" /\ returned.op = "getRoutine"
  /\ returned.live /\ ~returned.threw
  /\ returned.bulk = "none"
  /\ cache[returned.key[1]] # None
  /\ cache[returned.key[1]][1].tables # <<>>
  /\ ~MapHas(cache[returned.key[1]][1].routines, toObjectKey(returned.schema, returned.name))
  /\ returned.result = None
  /\ returned.issued = {}

\* call c issues query q in this step
Issues(c, q) == calls'[c].pc = q /\ calls[c].pc # q

\* C32: within one getTable call the description query is issued only after
\* the column query has resolved, and within one getRoutine call the
\* parameter query only after the definition query has resolved: a call
\* issues the second query in the step in which its first query resolves, or
\* when the first field is already there, and awaits one query at a time.
C32_FetchesInSequence ==
  [][\A c \in Slots :
       /\ Issues(c, "desc") =>
            \/ calls[c].pc \in {"cols", "odDesc"}
            \/ calls'[c].table[1].columns # None
       /\ Issues(c, "odDesc") => calls[c].pc = "odCols"
       /\ Issues(c, "params") =>
            \/ calls[c].pc = "def"
            \/ Truthy(calls'[c].table[1].definition)
       /\ calls[c].pc \in {"cols", "odCols", "def"} =>
            calls[c].issued \cap {"desc", "odDesc", "params"} = {}]_vars

\* one getTable call has had its column query resolved and now awaits its
\* description query
C32_Witness ==
  \E c \in Slots :
    /\ calls[c].op = "getTable"
    /\ calls[c].pc = "desc"
    /\ {"cols", "desc"} \subseteq calls[c].issued
    /\ calls[c].table[1].columns # None

\* C33: a bulk snapshot fetch that was started before invalidate(key) never
\* installs its result after that invalidation: the call that executes
\* cache.set has seen no invalidate of its key since it issued its
\* object-list query (calls run one at a time here, so that `solo` of the
\* installing call says exactly this).
C33_NoInstallAcrossInvalidate ==
  (probe.fn = "commands" /\ installEvent.pc # "idle") => installEvent.solo

\* C34: one runQuery through the connection-sharing service calls
\* executeSimpleQuery at most twice; the second call is made only in the
\* second attempt, which is entered only when the first executeSimpleQuery
\* was rejected with NO_ACTIVE_CONNECTION, INVALID_CONNECTION_URI or
\* CONNECTION_FAILED and the cached connection has been disconnected; and a
\* runQuery that ends on the sharing path ends with a result or with absent.
C34_AtMostTwoExecutions ==
  [][/\ \A p \in ApiCallers :
          /\ probe'.procs[p].execs <= 2
          /\ (probe'.procs[p].execs = 2 /\ probe.procs[p].execs = 1) =>
                probe.procs[p].attempt = 1
          /\ (probe'.procs[p].attempt = 1 /\ probe.procs[p].attempt = 0) =>
                /\ probe.procs[p].pc = "exec"
                /\ probe.procs[p].execs = 1
                /\ probe'.event.code \in RetryCodes
                /\ probe'.cachedConnection = <<>>
                /\ probe.cachedConnection # <<>> =>
                     probe.cachedConnection[1].connectionUri \in probe'.disconnected
     /\ (probe'.event.op = "runQuery" /\ probe'.event.via = "sharing") =>
           probe'.event.outcome \in {"result", "undefined"}]_vars

\* C35: when tryGetActiveConnectionViaSharing returns no-active-connection,
\* permission-required or error, cachedConnection is undefined in the state
\* it returns in, and the URI cachedConnection held before that step, if
\* any, is among those passed to disconnect.
C35_FailedAcquisitionDisconnects ==
  [][probe'.event.status \in {"no-active-connection", "permission-required", "error"} =>
       /\ probe'.cachedConnection = <<>>
       /\ probe.cachedConnection # <<>> =>
            probe.cachedConnection[1].connectionUri \in probe'.disconnected]_vars

\* the first caller has obtained a shared connection and has ended; the
\* second caller's acquisition has then found no active connection and has
\* disconnected the cached URI
C35_Witness ==
  /\ probe.fn = "sharing"
  /\ probe.event.status = "no-active-connection"
  /\ probe.procs[1].pc = "done"
  /\ probe.procs[2].pc = "legacy"
  /\ probe.opened = {1}
  /\ probe.disconnected = {1}
  /\ probe.cachedConnection = <<>>

\* C36: once all calls have completed, every URI obtained from connect() is
\* the URI of the current cachedConnection or has been passed to
\* disconnect().
C36_NoConnectionLeftOpen ==
  (/\ probe.fn = "sharing"
   /\ \A p \in ApiCallers : probe.procs[p].pc \in {"idle", "done"}) =>
     \A u \in probe.opened :
       \/ u \in probe.disconnected
       \/ (probe.cachedConnection # <<>> /\ probe.cachedConnection[1].connectionUri = u)

\* C37: once all overlapping HistoryStore mutations have completed (no write
\* is outstanding), the content of the history file equals the in-memory
\* entry list.
C37_FileEqualsEntries ==
  (probe.fn = "overlap" /\ probe.issued > 0 /\ probe.writes = {}) =>
     probe.file = Some(probe.entries)

\* C38: the document-change listener never calls generateInsert for the change
\* event of a snippet insertion, and suppressDocumentChanges is false whenever
\* no generation is in flight.
C38_NoGenerationFromOwnSnippet ==
  probe.fn = "insert" =>
    /\ probe.started # "snippet"
    /\ (\A g \in Generations : probe.gens[g].pc = "idle") => ~probe.suppressDocumentChanges

\* C39: isIdentity, isComputed and isRowGuid of the ColumnMetadata that
\* getTable delivers are the catalog's flags of the column, and the generated
\* INSERT statement lists no column that the catalog marks as identity,
\* computed or rowguid.
C39_MarkedColumnsLeftOut ==
  (probe.fn = "insertColumns" /\ probe.done) =>
    \A i \in 1..Len(probe.catalog) :
      LET row == probe.catalog[i]
          marked == row.is_identity.v = 1 \/ row.is_computed.v = 1 \/ row.is_rowguidcol.v = 1
      IN /\ probe.columns[i].isIdentity = (row.is_identity.v = 1)
         /\ probe.columns[i].isComputed = (row.is_computed.v = 1)
         /\ probe.columns[i].isRowGuid = (row.is_rowguidcol.v = 1)
         /\ (marked /\ probe.listed # None) =>
               \A j \in 1..Len(probe.listed[1]) :
                 probe.listed[1][j] # wrapIdentifier(row.column_name.v)

Occurs(pattern, text) == IndexOf(text, pattern) # -1

\* C40: an expansion replaces only the '*' span; for a qualified wildcard
\* alias.* the resulting text holds alias.[column] for every chosen column and
\* nowhere alias.alias.[column]; and no edit is made when the table has no
\* column metadata or the quick pick is dismissed.
C40_QualifiedOnce ==
  (probe.fn = "expandWildcard" /\ probe.done) =>
    /\ (probe.columns \in {None, Some(<<>>)} \/ probe.dismissed) =>
          (~probe.edited /\ probe.out = probe.text)
    /\ probe.edited =>
         \E start \in 0..(Len(probe.text) - 1) :
           /\ probe.text[start + 1] = "*"
           /\ start \in {probe.offset, probe.offset - 1}
           /\ SubSeq(probe.out, 1, start) = SubSeq(probe.text, 1, start)
           /\ Len(probe.out) >= Len(probe.text) - 1
           /\ SubSeq(probe.out, Len(probe.out) - (Len(probe.text) - start - 1) + 1, Len(probe.out))
                = SubSeq(probe.text, start + 2, Len(probe.text))
           /\ LET q == OwnerMatch(SubSeq(probe.text, 1, start))
              IN q # None =>
                   \A i \in 1..Len(probe.chosen) :
                     /\ Occurs(q[1] \o <<".", "[">> \o probe.chosen[i] \o <<"]">>, probe.out)
                     /\ ~Occurs(q[1] \o <<".">> \o q[1] \o <<".", "[">> \o probe.chosen[i] \o <<"]">>,
                                probe.out)

====
